---- MODULE Spec2Model ----
(***************************************************************************)
(* Model of the screenshot stitcher of longshot (src/offscreen.js, later   *)
(* revision, lines 505-1310): the dimension sanitizer, the sticky-header   *)
(* comparator and the stitching entry points; and of the background       *)
(* service worker that feeds it (src/unnamed/part_000): the viewport-      *)
(* capture loop and the capture sessions.                                  *)
(*                                                                         *)
(* JavaScript numbers that can be fractional are kept as exact rationals   *)
(* [n, d] with d > 0.  An image is kept run-length encoded: a sequence of  *)
(* bands of equal rows, each row a sequence of runs of equal pixels; a     *)
(* pixel is <<r, g, b, a>>.                                                *)
(***************************************************************************)
EXTENDS Integers, Sequences, FiniteSets, TLC

VARIABLES
    \* ---- one call of sanitizeCanvasDimension
    sanPc, sanValue, sanDefault, sanResult,
    \* ---- one call of detectStickyHeaderHeight
    detPc, detImg1, detImg2, detOffsetX, detMaxHeight, detWidth, detEnv,
    detResult,
    \* ---- one call of a stitching entry point
    pc,                  \* phase the call is in
    entry,               \* the entry point called
    captures,            \* argument: the capture sequence
    overlapHeight,       \* argument
    useCustomContainer,  \* argument of stitchCapturedViewports
    bounds,              \* containerBounds, elementBounds or cropBounds
    devicePixelRatio,    \* argument of stitchCapturedViewports
    images,              \* captures decoded so far
    stickyHeaderHeight,
    detectOutcome,       \* how the header detection of this call ended
    surfaces,            \* sizes of the canvases allocated, in order
    drawIndex,           \* loop variable i of the drawing loop, from 1
    currentY,            \* currentY / currentDestY
    elementRowDrawnUpTo,
    draws,               \* the drawImage calls made on the output canvas
    encodes,             \* number of convertToBlob calls
    result,              \* size of the PNG returned
    failedIn,            \* phase in which the call failed
    errorMessage,        \* message of the Error the call rejects with
    \* ---- the chrome.runtime.onMessage listener
    responses,           \* sendResponse calls made for the current message
    blobUrls,            \* URL.createObjectURL calls made for it
    callCount,           \* stitch messages answered so far
    earlier,             \* outcome of an earlier successful call, if kept
    \* ---- the viewport-capture loop of the background worker
    capPc,               \* where the loop is
    capFn,               \* scrollAndStitchCapture or elementCapture
    scrollHeight,        \* dims.scrollHeight
    viewportHeight,      \* dims.viewportHeight / dims.clientHeight
    numCaptures,
    capIndex,            \* loop variable i
    retries,
    attempts,            \* captureVisibleTab calls made for this viewport
    dataUrl,             \* "undefined" until a screenshot succeeded
    lastFailure,         \* kind of the last captureVisibleTab failure
    collected,           \* the captures array
    capError,            \* the error the capture function throws
    stitcherCalls,       \* sendToOffscreen calls made
    \* ---- capture sessions of the background worker
    currentCaptureState,
    activeSessions,
    sessions,            \* what each session did so far
    timers,              \* sessions whose delayed clear is pending
    pendingHotkeys,      \* hotkeys waiting for chrome.storage.sync.get
    staleFires           \* delayed clears that found another session's state

sanVars == <<sanPc, sanValue, sanDefault, sanResult>>
detVars == <<detPc, detImg1, detImg2, detOffsetX, detMaxHeight, detWidth,
             detEnv, detResult>>
stitchVars == <<pc, entry, captures, overlapHeight, useCustomContainer, bounds,
                devicePixelRatio, images, stickyHeaderHeight, detectOutcome,
                surfaces, drawIndex, currentY, elementRowDrawnUpTo, draws,
                encodes, result, failedIn, errorMessage>>
listenerVars == <<responses, blobUrls, callCount, earlier>>
captureVars == <<capPc, capFn, scrollHeight, viewportHeight, numCaptures,
                 capIndex, retries, attempts, dataUrl, lastFailure, collected,
                 capError, stitcherCalls>>
sessionVars == <<currentCaptureState, activeSessions, sessions, timers,
                 pendingHotkeys, staleFires>>
workerVars == <<captureVars, sessionVars>>
vars == <<sanVars, detVars, stitchVars, listenerVars, workerVars>>

----------------------------------------------------------------------------
(* Bounds of the model *)

\* numerators of the small candidate dimensions run over -SanSpan..SanSpan
SanSpan == 6
\* height of the images handed to the comparator on its own
DetImageHeight == 100
\* a stitch call gets at most MaxCaptures captures
MaxCaptures == 3
\* the short captures are 1..MaxSmallHeight rows high
MaxSmallHeight == 3
\* the tall captures: TallHeight rows, the first HeaderRows of them a header
TallHeight == 100
HeaderRows == 25
\* a capture so high that two of them pass the canvas ceiling
HugeHeight == 20000

(* Program constants *)
CanvasMax == 32767
DefaultWidth == 800
DefaultHeight == 600
StickyMinHeight == 20
PixelDiffThreshold == 30
RowDiffPercent == 5
CompareHeight == 200
OverlapHeight == 75

----------------------------------------------------------------------------
(* Exact arithmetic on JavaScript numbers *)

Rat(n, d) == [n |-> n, d |-> d]
RatInt(i) == Rat(i, 1)
RatLess(a, b) == a.n * b.d < b.n * a.d
RatMin(a, b) == IF RatLess(b, a) THEN b ELSE a
\* Math.floor
Floor(a) == a.n \div a.d
\* Math.round: the nearest integer, halves rounded up
Round(a) == (2 * a.n + a.d) \div (2 * a.d)
Abs(i) == IF i < 0 THEN -i ELSE i
Max(a, b) == IF a > b THEN a ELSE b
Min(a, b) == IF a < b THEN a ELSE b

----------------------------------------------------------------------------
(* JavaScript values handed to sanitizeCanvasDimension *)

Undefined == [kind |-> "undefined"]
Null == [kind |-> "null"]
NaN == [kind |-> "nan"]
PosInfinity == [kind |-> "inf"]
NegInfinity == [kind |-> "neginf"]
Text == [kind |-> "text"]
Num(n, d) == [kind |-> "num", n |-> n, d |-> d]
Bool(b) == [kind |-> "bool", b |-> b]

\* the test `v ? .. : ..`, `!v`, `.. && v` of a boolean or a missing property
ToBoolean(v) == v.kind = "bool" /\ v.b

\* Number(value): a non-numeric string converts to NaN
ToNumber(value) == IF value.kind = "text" THEN NaN ELSE value

\* sanitizeCanvasDimension without the ceiling of lines 568-570
SanitizeNoCeiling(value, defaultValue) ==
    IF value.kind \in {"undefined", "null"} THEN defaultValue
    ELSE LET numValue == ToNumber(value) IN
         IF numValue.kind \in {"nan", "inf", "neginf"} THEN defaultValue
         ELSE LET floored == Floor(numValue)
              IN  IF floored < 1 THEN defaultValue ELSE floored

\* sanitizeCanvasDimension testing the value, not its floor, against zero
SanitizeNoFloorGuard(value, defaultValue) ==
    IF value.kind \in {"undefined", "null"} THEN defaultValue
    ELSE LET numValue == ToNumber(value) IN
         IF numValue.kind \in {"nan", "inf", "neginf"} THEN defaultValue
         ELSE LET floored == Floor(numValue)
                  intValue == IF numValue.n <= 0 THEN defaultValue ELSE floored
              IN  IF intValue > CanvasMax THEN CanvasMax ELSE intValue

sanitizeCanvasDimension(value, defaultValue) ==
    IF value.kind \in {"undefined", "null"} THEN defaultValue
    ELSE LET numValue == ToNumber(value) IN
         IF numValue.kind \in {"nan", "inf", "neginf"} THEN defaultValue
         ELSE LET floored == Floor(numValue)
                  intValue == IF floored < 1 THEN defaultValue ELSE floored
              IN  IF intValue > CanvasMax THEN CanvasMax ELSE intValue

----------------------------------------------------------------------------
(* Decoded images, run-length encoded *)

Run(n, v) == [n |-> n, v |-> v]

RECURSIVE RunAt(_, _)
\* the value at index i of a run-length encoded sequence
RunAt(runs, i) ==
    IF i < Head(runs).n THEN Head(runs).v
    ELSE RunAt(Tail(runs), i - Head(runs).n)

\* what a cleared canvas holds where nothing was drawn
TransparentBlack == <<0, 0, 0, 0>>

Image(w, h, bands) == [width |-> w, height |-> h, bands |-> bands]

\* the pixel of a decoded image; drawImage clips a source rectangle to the
\* image, so a canvas pixel whose source lies outside stays transparent
PixelAt(img, x, y) ==
    IF x < 0 \/ x >= img.width \/ y < 0 \/ y >= img.height
    THEN TransparentBlack
    ELSE RunAt(RunAt(img.bands, y), x)

----------------------------------------------------------------------------
(* detectStickyHeaderHeight *)

\* const diff = |dR| + |dG| + |dB|
PixelDiff(p, q) ==
    Abs(p[1] - q[1]) + Abs(p[2] - q[2]) + Abs(p[3] - q[3])

\* diffCount of one row of the two canvases.  The canvases and their pixel
\* data have IntegerPart(maxHeight) rows: a row past them reads undefined,
\* the difference is NaN and no pixel counts as differing.
DiffCount(img1, img2, offsetX, row, width, canvasHeight) ==
    IF row >= canvasHeight THEN 0
    ELSE Cardinality({x \in 0..(width - 1) :
            PixelDiff(PixelAt(img1, offsetX + x, row),
                      PixelAt(img2, offsetX + x, row)) > PixelDiffThreshold})

\* the row test with >= in place of >
RowBreaksAtThreshold(diffCount, width) ==
    diffCount * 100 >= width * RowDiffPercent

\* if (diffCount > (width * 0.05)) break;
RowBreaks(diffCount, width) ==
    diffCount * 100 > width * RowDiffPercent

\* the rows the loop can visit: row = 0, 1, ... while row < maxHeight
LoopRows(maxHeight) ==
    {row \in 0..Max(Floor(maxHeight), 0) : RatLess(RatInt(row), maxHeight)}

\* the rows at which the loop would break
BreakingRows(img1, img2, offsetX, maxHeight, width) ==
    {row \in LoopRows(maxHeight) :
        RowBreaks(DiffCount(img1, img2, offsetX, row, width,
                            Floor(maxHeight)), width)}

\* for (let row = 0; row < maxHeight; row++) { ... break; stickyHeight = row + 1 }
\* stickyHeight ends as the first breaking row, or as the number of rows
\* visited when no row breaks
ScanRows(img1, img2, offsetX, maxHeight, width) ==
    LET breaking == BreakingRows(img1, img2, offsetX, maxHeight, width)
    IN  IF breaking = {} THEN Cardinality(LoopRows(maxHeight))
        ELSE CHOOSE row \in breaking : \A other \in breaking : row <= other

\* the acceptance test without the upper limit
AcceptAnyRun(stickyHeight, maxHeight) ==
    IF stickyHeight >= StickyMinHeight THEN stickyHeight ELSE 0

\* if (stickyHeight >= 20 && stickyHeight < maxHeight - 20) return stickyHeight
AcceptStickyHeight(stickyHeight, maxHeight) ==
    IF /\ stickyHeight >= StickyMinHeight
       /\ RatLess(RatInt(stickyHeight + StickyMinHeight), maxHeight)
    THEN stickyHeight ELSE 0

\* what makes the try block throw by itself: the OffscreenCanvas constructor
\* refuses a negative size, getImageData refuses an empty rectangle
DetectThrows(maxHeight, width) ==
    \/ width < 0
    \/ maxHeight.n < 0
    \/ width = 0
    \/ Floor(maxHeight) = 0

\* how a call ends: it returns a value or lets an exception escape
Returned(v) == [threw |-> FALSE, value |-> v]
Thrown == [threw |-> TRUE, value |-> 0]

\* the canvas backend during one call: "ok", "nocontext" (getContext gave
\* null) or "exception" (a canvas call threw)
CanvasEnvs == {"ok", "nocontext", "exception"}

\* a comparator without its try/catch and its context test
DetectNoCatch(img1, img2, offsetX, maxHeight, width, env) ==
    IF env # "ok" \/ DetectThrows(maxHeight, width) THEN Thrown
    ELSE Returned(AcceptStickyHeight(
             ScanRows(img1, img2, offsetX, maxHeight, width), maxHeight))

detectStickyHeaderHeight(img1, img2, offsetX, maxHeight, width, env) ==
    IF env = "nocontext" THEN Returned(0)
    ELSE IF env = "exception" \/ DetectThrows(maxHeight, width)
         THEN Returned(0)
         ELSE Returned(AcceptStickyHeight(
                  ScanRows(img1, img2, offsetX, maxHeight, width), maxHeight))

----------------------------------------------------------------------------
(* Geometry of the stitching modes *)

\* a number multiplied by the device pixel ratio and rounded
Scaled(x, dpr) == Round(Rat(x * dpr.n, dpr.d))

NoBounds == [kind |-> "null"]

\* the stitching mode a call runs in
Mode ==
    IF entry = "stitchCapturedViewports"
    THEN (IF useCustomContainer /\ bounds # NoBounds THEN "custom" ELSE "whole")
    ELSE IF entry = "stitchElementCaptures"
         THEN (IF ToBoolean(bounds.hasInternalScroll) THEN "internal"
               ELSE "page")
         ELSE "jira"

\* the check `captures.length === 0` without effect
EmptyInputAccepted(caps) == FALSE

\* if (captures.length === 0) throw new Error('No captures to stitch')
EmptyInputRejected(caps) == Len(caps) = 0

\* the device pixel ratio a mode scales by
ModeDpr ==
    IF entry = "stitchCapturedViewports" THEN devicePixelRatio
    ELSE bounds.devicePixelRatio

\* ---- whole-page mode (stitchCapturedViewports, lines 889-963)

\* Math.min(200, firstImg.img.height / 2)
WholePageCompareHeight(imgs) ==
    RatMin(RatInt(CompareHeight), Rat(imgs[1].img.height, 2))

RECURSIVE SumHeights(_, _, _, _)
SumHeights(imgs, i, overlap, sticky) ==
    IF i > Len(imgs) THEN 0
    ELSE (imgs[i].img.height - overlap - sticky)
         + SumHeights(imgs, i + 1, overlap, sticky)

\* the total height with the overlap left in
WholePageTotalNoOverlap(imgs, overlap, sticky) ==
    imgs[1].img.height + SumHeights(imgs, 2, 0, sticky)

\* let totalHeight = images[0].img.height; for (i = 1..) totalHeight += ...
WholePageTotalHeight(imgs, overlap, sticky) ==
    imgs[1].img.height + SumHeights(imgs, 2, overlap, sticky)

\* the source Y with the first capture treated like the others
WholePageSourceYAlways(i, overlap, sticky) == overlap + sticky

\* const sourceY = isFirstCapture ? 0 : overlapHeight + stickyHeaderHeight
WholePageSourceY(i, overlap, sticky) ==
    IF i = 1 THEN 0 ELSE overlap + sticky

\* every capture drawn at its full height
WholePageDrawHeightFull(image, i, overlap, sticky) == image.img.height

\* const drawHeight = isFirstCapture ? h : h - overlapHeight - sticky
WholePageDrawHeight(image, i, overlap, sticky) ==
    IF i = 1 THEN image.img.height
    ELSE image.img.height - overlap - sticky

\* ---- whole-page mode of the earlier revision (lines 350-442): no header
\* detection, the overlap band blended at half opacity

\* let totalHeight = images[0].img.height; totalHeight += height - overlapHeight
EarlierTotalHeight(imgs, overlap) ==
    imgs[1].img.height + SumHeights(imgs, 2, overlap, 0)

\* const drawHeight = i === 0 ? image.img.height : image.img.height - overlapHeight
EarlierDrawHeight(image, i, overlap) ==
    IF i = 1 THEN image.img.height ELSE image.img.height - overlap

RECURSIVE EarlierCursorAfter(_, _, _)
\* currentY after the first n iterations: currentY += drawHeight
EarlierCursorAfter(imgs, n, overlap) ==
    IF n = 0 THEN 0
    ELSE EarlierCursorAfter(imgs, n - 1, overlap)
         + EarlierDrawHeight(imgs[n], n, overlap)

\* ---- custom-container mode (stitchCustomContainerCaptures)

ScaledBounds(b, dpr) ==
    [left |-> Scaled(b.left, dpr), top |-> Scaled(b.top, dpr),
     width |-> Scaled(b.width, dpr), height |-> Scaled(b.height, dpr)]

\* Math.min(200 * devicePixelRatio, scaledBounds.height / 2)
ContainerCompareHeight(sb, dpr) ==
    RatMin(Rat(CompareHeight * dpr.n, dpr.d), Rat(sb.height, 2))

ContainerTotalHeight(n, sb, scaledOverlap, sticky) ==
    sb.height + (n - 1) * (sb.height - scaledOverlap - sticky)

ContainerSrcY(i, sb, scaledOverlap, sticky) ==
    IF i = 1 THEN sb.top ELSE sb.top + scaledOverlap + sticky

\* every capture read at the full container height
ContainerSrcHeightFull(i, sb, scaledOverlap, sticky) == sb.height

ContainerSrcHeight(i, sb, scaledOverlap, sticky) ==
    IF i = 1 THEN sb.height ELSE sb.height - scaledOverlap - sticky

\* ---- element mode (stitchElementCaptures)

\* the record pushed for a capture; rect is its boundingRect or, without
\* one, elementBounds, which has no x, y
LoadedElementImage(cap, eb) ==
    LET dpr == eb.devicePixelRatio
        hasRect == cap.boundingRect # NoBounds
    IN  [img |-> cap.img,
         offsetX |-> Scaled(IF hasRect THEN cap.boundingRect.x ELSE eb.offsetX,
                            dpr),
         offsetY |-> Scaled(IF hasRect THEN cap.boundingRect.y ELSE eb.offsetY,
                            dpr),
         captureHeight |->
             Scaled(IF hasRect /\ cap.boundingRect.height # 0
                    THEN cap.boundingRect.height ELSE eb.height, dpr)]

LoadedImage(cap) ==
    [img |-> cap.img, offsetX |-> 0, offsetY |-> 0, captureHeight |-> 0]

\* image.elementRowStart = Math.max(0, -image.offsetY)
ElementRowStart(image) == Max(0, -image.offsetY)

\* image.elementRowEnd without the cap
ElementRowEndUncapped(image, scaledTotalHeight) ==
    ElementRowStart(image) + (image.img.height - Max(0, image.offsetY))

\* a capture taken to show no row of the element
ElementRowEndAtStart(image, scaledTotalHeight) == ElementRowStart(image)

\* image.elementRowEnd, capped at the scaled total height
ElementRowEnd(image, scaledTotalHeight) ==
    Min(ElementRowStart(image) + (image.img.height - Max(0, image.offsetY)),
        scaledTotalHeight)

\* a watermark set to the last capture's end, whatever was drawn before
RowsDrawnUpToLast(drawnUpTo, elementRowEnd) == elementRowEnd

\* elementRowDrawnUpTo = Math.max(elementRowDrawnUpTo, elementRowEnd)
RowsDrawnUpTo(drawnUpTo, elementRowEnd) == Max(drawnUpTo, elementRowEnd)

\* Math.min(200 * devicePixelRatio, firstImg.img.height / 2)
ElementCompareHeight(imgs, dpr) ==
    RatMin(Rat(CompareHeight * dpr.n, dpr.d), Rat(imgs[1].img.height, 2))

\* a source Y that starts every capture at the top of the element
ElementSrcYFromTop(image, i, internal, scaledOverlap, sticky, drawnUpTo) ==
    Max(0, image.offsetY)

\* srcY of lines 774-793, before the clamp
ElementSrcY(image, i, internal, scaledOverlap, sticky, drawnUpTo) ==
    IF internal
    THEN (IF i = 1 THEN image.offsetY ELSE image.offsetY + scaledOverlap)
    ELSE Max(0, image.offsetY)
         + Max(0, drawnUpTo - ElementRowStart(image))
         + (IF i # 1 /\ sticky > 0 THEN sticky ELSE 0)

\* a source height that is not clamped to the image
ElementSrcHeightUnclamped(image, i, internal, scaledOverlap, srcY) ==
    IF internal
    THEN (IF i = 1 THEN image.captureHeight
          ELSE image.captureHeight - scaledOverlap)
    ELSE image.img.height - srcY

\* srcHeight of lines 777 and 796, clamped by line 805
ElementSrcHeight(image, i, internal, scaledOverlap, srcY) ==
    LET unclamped ==
            IF internal
            THEN (IF i = 1 THEN image.captureHeight
                  ELSE image.captureHeight - scaledOverlap)
            ELSE image.img.height - srcY
    IN  Min(unclamped, image.img.height - srcY)

\* ---- named-region mode (stitchJiraCenterCaptures)

JiraTotalHeight(n, scaledHeight, scaledOverlap) ==
    scaledHeight + (n - 1) * (scaledHeight - scaledOverlap)

\* every capture read from the top of the crop rectangle
JiraSrcYSame(i, scaledTop, scaledOverlap) == scaledTop

JiraSrcY(i, scaledTop, scaledOverlap) ==
    IF i = 1 THEN scaledTop ELSE scaledTop + scaledOverlap

JiraSrcHeight(image, i, scaledHeight, scaledOverlap, srcY) ==
    Min(IF i = 1 THEN scaledHeight ELSE scaledHeight - scaledOverlap,
        image.img.height - srcY)

----------------------------------------------------------------------------
(* Specification Spec: one call of a stitching entry point, from the call  *)
(* to the returned PNG or the rejection                                    *)

NoResult == [width |-> 0, height |-> 0]

SanIdle ==
    /\ sanPc = "idle"
    /\ sanValue = Undefined
    /\ sanDefault = DefaultWidth
    /\ sanResult = 0

DetIdle ==
    /\ detPc = "idle"
    /\ detImg1 = <<>>
    /\ detImg2 = <<>>
    /\ detOffsetX = 0
    /\ detMaxHeight = RatInt(0)
    /\ detWidth = 0
    /\ detEnv = "ok"
    /\ detResult = 0

argVars == <<entry, captures, overlapHeight, useCustomContainer, bounds,
             devicePixelRatio>>

\* the text an entry point's catch block puts before the cause
OuterMessage(e) ==
    IF e = "stitchCapturedViewports" THEN "Failed to stitch captures"
    ELSE IF e = "stitchElementCaptures"
         THEN "Failed to stitch element captures"
         ELSE "Failed to stitch Jira center captures"

\* a catch block that throws its own text and drops e.message
WrapErrorDroppingCause(text, cause) == <<text>>

\* throw new Error(`<text>: ${e.message}`): the message is the wrapper's text,
\* then the message of the error caught, kept as a sequence of segments
WrapError(text, cause) == <<text>> \o cause

\* the messages of the Error a call rejects with, outermost wrapper first
Wrapped(cause) == WrapError(OuterMessage(entry), cause)

\* a failure inside stitchCustomContainerCaptures is wrapped there as well
WrappedInner(cause) ==
    IF Mode = "custom"
    THEN Wrapped(WrapError("Failed to stitch custom container captures",
                           cause))
    ELSE Wrapped(cause)

StitchIdle ==
    /\ pc = "idle"
    /\ entry = "none"
    /\ captures = <<>>
    /\ overlapHeight = 0
    /\ useCustomContainer = FALSE
    /\ bounds = NoBounds
    /\ devicePixelRatio = RatInt(1)
    /\ images = <<>>
    /\ stickyHeaderHeight = 0
    /\ detectOutcome = "notrun"
    /\ surfaces = <<>>
    /\ drawIndex = 0
    /\ currentY = 0
    /\ elementRowDrawnUpTo = 0
    /\ draws = <<>>
    /\ encodes = 0
    /\ result = NoResult
    /\ failedIn = "none"
    /\ errorMessage = <<>>
    /\ responses = <<>>
    /\ blobUrls = 0
    /\ callCount = 0
    /\ earlier = <<>>

\* the background worker before any capture: no dimensions read, no
\* session, currentCaptureState = null, activeSessions empty
NoState == [sessionId |-> 0, status |-> "null"]

CaptureIdle ==
    /\ capPc = "idle"
    /\ capFn = "none"
    /\ scrollHeight = 0
    /\ viewportHeight = 0
    /\ numCaptures = 0
    /\ capIndex = 0
    /\ retries = 0
    /\ attempts = 0
    /\ dataUrl = "undefined"
    /\ lastFailure = "none"
    /\ collected = <<>>
    /\ capError = "none"
    /\ stitcherCalls = 0

SessionIdle ==
    /\ currentCaptureState = NoState
    /\ activeSessions = {}
    /\ sessions = <<>>
    /\ timers = {}
    /\ pendingHotkeys = 0
    /\ staleFires = 0

WorkerIdle == CaptureIdle /\ SessionIdle

Init == SanIdle /\ DetIdle /\ StitchIdle /\ WorkerIdle

\* a local variable that keeps what an earlier call left in it
CarriedOver(left) == left

\* let elementRowDrawnUpTo = 0: every call starts with locals of its own,
\* whatever an earlier call left in its locals
InitialRowDrawnUpTo(left) == 0

\* the entry point is called: the arguments are bound, the locals are fresh
\* and the empty input is rejected
Call(e, caps, overlap, use, b, dpr) ==
    /\ pc = "idle"
    /\ entry' = e
    /\ captures' = caps
    /\ overlapHeight' = overlap
    /\ useCustomContainer' = use
    /\ bounds' = b
    /\ devicePixelRatio' = dpr
    /\ IF EmptyInputRejected(caps)
       THEN /\ pc' = "failed"
            /\ failedIn' = "validating"
            /\ errorMessage' =
                   WrapError(OuterMessage(e), <<"No captures to stitch">>)
       ELSE /\ pc' = "loading"
            /\ failedIn' = "none"
            /\ errorMessage' = <<>>
    /\ images' = <<>>
    /\ stickyHeaderHeight' = 0
    /\ detectOutcome' = "notrun"
    /\ surfaces' = <<>>
    /\ drawIndex' = 0
    /\ currentY' = 0
    /\ elementRowDrawnUpTo' = InitialRowDrawnUpTo(elementRowDrawnUpTo)
    /\ draws' = <<>>
    /\ encodes' = 0
    /\ result' = NoResult
    /\ UNCHANGED <<sanVars, detVars, workerVars, listenerVars>>

\* header detection runs for two or more captures, not in page-scroll
\* element mode and not in named-region mode
DetectionRuns == Len(captures) >= 2 /\ Mode \in {"whole", "custom", "internal"}

\* the output is allocated as soon as one capture is decoded
AfterLoadEager(n) == "allocating"

\* where the call goes once n captures are decoded: the loop continues until
\* all are, then header detection where the mode has it, else the allocation
AfterLoad(n) ==
    IF n < Len(captures) THEN "loading"
    ELSE IF DetectionRuns THEN "detecting"
         ELSE "allocating"

\* const img = await loadImageFromDataUrl(captures[i].dataUrl); images.push()
LoadImage ==
    /\ pc = "loading"
    /\ Len(images) < Len(captures)
    /\ \E decoded \in BOOLEAN :
        IF decoded
        THEN LET cap == captures[Len(images) + 1]
                 rec == IF entry = "stitchElementCaptures"
                        THEN LoadedElementImage(cap, bounds)
                        ELSE LoadedImage(cap)
             IN  /\ images' = Append(images, rec)
                 /\ pc' = AfterLoad(Len(images) + 1)
                 /\ UNCHANGED <<failedIn, errorMessage>>
        ELSE /\ pc' = "failed"
             /\ failedIn' = "loading"
             /\ errorMessage' = Wrapped(<<"Failed to load image">>)
             /\ UNCHANGED images
    /\ UNCHANGED <<argVars, stickyHeaderHeight, detectOutcome, surfaces,
                   drawIndex, currentY, elementRowDrawnUpTo, draws, encodes,
                   result, sanVars, detVars, workerVars, listenerVars>>

\* the arguments the mode hands to detectStickyHeaderHeight
DetectOffsetX ==
    IF Mode = "whole" THEN 0
    ELSE IF Mode = "custom" THEN ScaledBounds(bounds, devicePixelRatio).left
         ELSE images[1].offsetX
DetectMaxHeight ==
    IF Mode = "whole" THEN WholePageCompareHeight(images)
    ELSE IF Mode = "custom"
         THEN ContainerCompareHeight(ScaledBounds(bounds, devicePixelRatio),
                                     devicePixelRatio)
         ELSE ElementCompareHeight(images, bounds.devicePixelRatio)
DetectWidth ==
    IF Mode = "whole" THEN images[1].img.width
    ELSE IF Mode = "custom" THEN ScaledBounds(bounds, devicePixelRatio).width
         ELSE Scaled(bounds.width, bounds.devicePixelRatio)

\* stickyHeaderHeight = detectStickyHeaderHeight(first, second, ...)
DetectHeader ==
    /\ pc = "detecting"
    /\ \E env \in CanvasEnvs :
        \E ended \in {detectStickyHeaderHeight(images[1].img, images[2].img,
                         DetectOffsetX, DetectMaxHeight, DetectWidth, env)} :
            IF ended.threw
            THEN /\ pc' = "failed"
                 /\ failedIn' = "detecting"
                 /\ errorMessage' = WrappedInner(<<"detection failed">>)
                 /\ UNCHANGED <<stickyHeaderHeight, detectOutcome>>
            ELSE /\ stickyHeaderHeight' = ended.value
                 /\ detectOutcome' =
                        IF env # "ok" THEN env
                        ELSE IF DetectThrows(DetectMaxHeight, DetectWidth)
                             THEN "exception" ELSE "ok"
                 /\ pc' = "allocating"
                 /\ UNCHANGED <<failedIn, errorMessage>>
    /\ UNCHANGED <<argVars, images, surfaces, drawIndex, currentY,
                   elementRowDrawnUpTo, draws, encodes, result, sanVars,
                   detVars, workerVars, listenerVars>>

\* the size asked of the output canvas, each side through the sanitizer
OutputSize ==
    LET n == Len(images) IN
    IF Mode = "whole"
    THEN [width |-> sanitizeCanvasDimension(
                        Num(images[1].img.width, 1), DefaultWidth),
          height |-> sanitizeCanvasDimension(
                        Num(WholePageTotalHeight(images, overlapHeight,
                                                 stickyHeaderHeight), 1),
                        DefaultHeight)]
    ELSE IF Mode = "custom"
    THEN LET sb == ScaledBounds(bounds, devicePixelRatio) IN
         [width |-> sanitizeCanvasDimension(Num(sb.width, 1), DefaultWidth),
          height |-> sanitizeCanvasDimension(
                        Num(ContainerTotalHeight(n, sb,
                                Scaled(overlapHeight, devicePixelRatio),
                                stickyHeaderHeight), 1),
                        DefaultHeight)]
    ELSE IF Mode \in {"internal", "page"}
    THEN [width |-> sanitizeCanvasDimension(
                        Num(Scaled(bounds.width, bounds.devicePixelRatio), 1),
                        DefaultWidth),
          height |-> sanitizeCanvasDimension(
                        Num(Scaled(bounds.height, bounds.devicePixelRatio), 1),
                        DefaultHeight)]
    ELSE [width |-> sanitizeCanvasDimension(
                        Num(Scaled(bounds.width, bounds.devicePixelRatio), 1),
                        DefaultWidth),
          height |-> sanitizeCanvasDimension(
                        Num(JiraTotalHeight(n,
                                Scaled(bounds.height, bounds.devicePixelRatio),
                                Scaled(overlapHeight,
                                       bounds.devicePixelRatio)), 1),
                        DefaultHeight)]

\* const outputCanvas = new OffscreenCanvas(w, h); getContext('2d');
\* if (!ctx) throw new Error('Failed to get canvas context')
AllocateOutput ==
    /\ pc = "allocating"
    /\ \E env \in CanvasEnvs :
        /\ surfaces' = IF env = "exception" THEN surfaces
                       ELSE Append(surfaces, OutputSize)
        /\ IF env = "ok"
           THEN /\ pc' = "compositing"
                /\ drawIndex' = 1
                /\ UNCHANGED <<failedIn, errorMessage>>
           ELSE /\ pc' = "failed"
                /\ failedIn' = "allocating"
                /\ errorMessage' =
                       WrappedInner(IF env = "nocontext"
                                    THEN <<"Failed to get canvas context">>
                                    ELSE <<"canvas allocation failed">>)
                /\ UNCHANGED drawIndex
    /\ UNCHANGED <<argVars, images, stickyHeaderHeight, detectOutcome,
                   currentY, elementRowDrawnUpTo, draws, encodes, result,
                   sanVars, detVars, workerVars, listenerVars>>

\* the drawImage call of iteration i, or the decision to skip the capture:
\* [skip, srcX, srcY, srcWidth, srcHeight]
DrawInstruction(i) ==
    LET image == images[i] IN
    IF Mode = "whole"
    THEN [skip |-> FALSE, srcX |-> 0,
          srcY |-> WholePageSourceY(i, overlapHeight, stickyHeaderHeight),
          srcWidth |-> images[1].img.width,
          srcHeight |-> WholePageDrawHeight(image, i, overlapHeight,
                                            stickyHeaderHeight)]
    ELSE IF Mode = "custom"
    THEN LET sb == ScaledBounds(bounds, devicePixelRatio)
             so == Scaled(overlapHeight, devicePixelRatio)
             srcY == ContainerSrcY(i, sb, so, stickyHeaderHeight)
             w == Min(sb.width, image.img.width - sb.left)
             h == Min(ContainerSrcHeight(i, sb, so, stickyHeaderHeight),
                      image.img.height - srcY)
         IN  [skip |-> w <= 0 \/ h <= 0, srcX |-> sb.left, srcY |-> srcY,
              srcWidth |-> w, srcHeight |-> h]
    ELSE IF Mode \in {"internal", "page"}
    THEN LET dpr == bounds.devicePixelRatio
             srcX == Max(0, image.offsetX)
             srcY == ElementSrcY(image, i, Mode = "internal",
                                 Scaled(overlapHeight, dpr),
                                 stickyHeaderHeight, elementRowDrawnUpTo)
             h == ElementSrcHeight(image, i, Mode = "internal",
                                   Scaled(overlapHeight, dpr), srcY)
             w == Min(Scaled(bounds.width, dpr), image.img.width - srcX)
         IN  [skip |-> h <= 0 \/ w <= 0, srcX |-> srcX, srcY |-> srcY,
              srcWidth |-> w, srcHeight |-> h]
    ELSE LET dpr == bounds.devicePixelRatio
             srcX == Scaled(bounds.left, dpr)
             srcY == JiraSrcY(i, Scaled(bounds.top, dpr),
                              Scaled(overlapHeight, dpr))
             h == JiraSrcHeight(image, i, Scaled(bounds.height, dpr),
                                Scaled(overlapHeight, dpr), srcY)
             w == Min(Scaled(bounds.width, dpr), image.img.width - srcX)
         IN  [skip |-> h <= 0 \/ w <= 0, srcX |-> srcX, srcY |-> srcY,
              srcWidth |-> w, srcHeight |-> h]

\* an output that is never re-allocated
TrimNever(y, outputHeight) == FALSE

\* whether the canvas is re-allocated at the drawn height after the loop
TrimNeeded(y, outputHeight) ==
    IF Mode = "whole" THEN FALSE
    ELSE IF Mode \in {"internal", "page"} THEN y < outputHeight
         ELSE y < outputHeight /\ y > 0

\* one iteration of the drawing loop
DrawCapture ==
    /\ pc = "compositing"
    /\ drawIndex <= Len(images)
    /\ LET ins == DrawInstruction(drawIndex)
           y == IF ins.skip THEN currentY ELSE currentY + ins.srcHeight
       IN  /\ draws' = IF ins.skip THEN draws
                       ELSE Append(draws,
                                [capture |-> drawIndex, srcX |-> ins.srcX,
                                 srcY |-> ins.srcY, srcWidth |-> ins.srcWidth,
                                 srcHeight |-> ins.srcHeight,
                                 destY |-> currentY])
           /\ currentY' = y
           /\ elementRowDrawnUpTo' =
                  IF Mode = "page"
                  THEN RowsDrawnUpTo(elementRowDrawnUpTo,
                           ElementRowEnd(images[drawIndex],
                               Scaled(bounds.height,
                                      bounds.devicePixelRatio)))
                  ELSE elementRowDrawnUpTo
           /\ drawIndex' = drawIndex + 1
           /\ pc' = IF drawIndex < Len(images) THEN "compositing"
                    ELSE IF TrimNeeded(y, surfaces[1].height) THEN "trimming"
                         ELSE "encoding"
    /\ UNCHANGED <<argVars, images, stickyHeaderHeight, detectOutcome,
                   surfaces, encodes, result, failedIn, errorMessage, sanVars,
                   detVars, workerVars, listenerVars>>

\* const trimmedCanvas = new OffscreenCanvas(outputWidth, currentY);
\* trimmedCtx.drawImage(outputCanvas, 0, 0)
TrimOutput ==
    /\ pc = "trimming"
    /\ \E env \in CanvasEnvs :
        /\ surfaces' = IF env = "exception" THEN surfaces
                       ELSE Append(surfaces, [width |-> surfaces[1].width,
                                              height |-> currentY])
        /\ IF env = "ok"
           THEN /\ pc' = "encoding"
                /\ UNCHANGED <<failedIn, errorMessage>>
           ELSE /\ pc' = "failed"
                /\ failedIn' = "trimming"
                /\ errorMessage' = WrappedInner(<<"canvas allocation failed">>)
    /\ UNCHANGED <<argVars, images, stickyHeaderHeight, detectOutcome,
                   drawIndex, currentY, elementRowDrawnUpTo, draws, encodes,
                   result, sanVars, detVars, workerVars, listenerVars>>

\* const blob = await canvas.convertToBlob({ type: 'image/png' }); a canvas
\* without pixels is refused
EncodePng ==
    /\ pc = "encoding"
    /\ encodes' = encodes + 1
    /\ \E encoded \in BOOLEAN :
        LET surface == surfaces[Len(surfaces)] IN
        IF encoded /\ surface.width > 0 /\ surface.height > 0
        THEN /\ pc' = "done"
             /\ result' = surface
             /\ UNCHANGED <<failedIn, errorMessage>>
        ELSE /\ pc' = "failed"
             /\ failedIn' = "encoding"
             /\ errorMessage' = WrappedInner(<<"PNG encoding failed">>)
             /\ UNCHANGED result
    /\ UNCHANGED <<argVars, images, stickyHeaderHeight, detectOutcome,
                   surfaces, drawIndex, currentY, elementRowDrawnUpTo, draws,
                   sanVars, detVars, workerVars, listenerVars>>

\* ---- the listener's answer

\* sendResponse({ success: true, pngBlobUrl })
SuccessResponse(url) ==
    [success |-> TRUE, pngBlobUrl |-> url, error |-> <<>>]

\* an error answer that carries a PNG URL as well
ErrorResponseWithUrl(msg) ==
    [success |-> TRUE, pngBlobUrl |-> "blob", error |-> msg]

\* sendResponse({ error: e.message || '...' }): no success, no pngBlobUrl
ErrorResponse(msg) ==
    [success |-> FALSE, pngBlobUrl |-> "none", error |-> msg]

\* .then((blob) => { URL.createObjectURL(blob); sendResponse(...) }); an
\* exception in the handler goes to the .catch handler
RespondFulfilled ==
    /\ pc = "done"
    /\ pc' = "responded"
    /\ \E made \in BOOLEAN :
        IF made
        THEN /\ blobUrls' = blobUrls + 1
             /\ responses' = Append(responses, SuccessResponse("blob"))
        ELSE /\ blobUrls' = blobUrls
             /\ responses' =
                    Append(responses,
                           ErrorResponse(<<"createObjectURL failed">>))
    /\ UNCHANGED <<argVars, images, stickyHeaderHeight, detectOutcome,
                   surfaces, drawIndex, currentY, elementRowDrawnUpTo, draws,
                   encodes, result, failedIn, errorMessage, callCount, earlier,
                   sanVars, detVars, workerVars>>

\* .catch((e) => { sendResponse({ error: e.message || '...' }) })
RespondRejected ==
    /\ pc = "failed"
    /\ pc' = "responded"
    /\ responses' = Append(responses, ErrorResponse(errorMessage))
    /\ UNCHANGED <<argVars, images, stickyHeaderHeight, detectOutcome,
                   surfaces, drawIndex, currentY, elementRowDrawnUpTo, draws,
                   encodes, result, failedIn, errorMessage, blobUrls,
                   callCount, earlier, sanVars, detVars, workerVars>>

\* ---- the inputs of a call

BasePx == <<100, 100, 100, 255>>
\* differs from BasePx by exactly the threshold in R+G+B, and in alpha
NoisePx == <<110, 110, 110, 0>>
\* differs from BasePx by one more than the threshold
OverPx == <<110, 110, 111, 255>>
DarkPx == <<10, 10, 10, 255>>
LightPx == <<200, 200, 200, 255>>

RowSame(w) == <<Run(w, BasePx)>>
RowNoise(w) == <<Run(w, NoisePx)>>
RowOver(w) == <<Run(w, OverPx)>>
\* k differing pixels in columns 1..k of an otherwise equal row
RowFew(w, k) == <<Run(1, BasePx), Run(k, OverPx), Run(w - 1 - k, BasePx)>>

Capture(img) == [img |-> img, boundingRect |-> NoBounds]

\* a short capture of one colour
SmallCapture(h) == Capture(Image(2, h, <<Run(h, <<Run(2, DarkPx)>>)>>))
\* a tall capture: a header of HeaderRows rows above a body of one colour
TallCapture(px) ==
    Capture(Image(2, TallHeight,
                  <<Run(HeaderRows, RowSame(2)),
                    Run(TallHeight - HeaderRows, <<Run(2, px)>>)>>))
HugeCapture == Capture(Image(1, HugeHeight, <<Run(HugeHeight, RowSame(1))>>))
\* a 1000 x 800 screenshot
WideCapture == Capture(Image(1000, 800, <<Run(800, RowSame(1000))>>))

PagePool ==
    {SmallCapture(h) : h \in 1..MaxSmallHeight}
    \cup {TallCapture(DarkPx), TallCapture(LightPx)}

SeqsOver(pool, maxLen) == UNION {[1..n -> pool] : n \in 0..maxLen}
Repeated(cap, maxLen) == {[i \in 1..n |-> cap] : n \in 1..maxLen}

PageCaptureSeqs ==
    SeqsOver(PagePool, MaxCaptures)
    \cup Repeated(HugeCapture, MaxCaptures)
    \cup Repeated(WideCapture, MaxCaptures)

Overlaps == {0, 2, OverlapHeight}
Dprs == {RatInt(1), Rat(3, 2), RatInt(2)}

\* stitchCapturedViewports(captures, overlapHeight, false/true, null, dpr)
CallWholePage ==
    /\ pc = "idle"
    /\ \E caps \in PageCaptureSeqs, overlap \in Overlaps,
          use \in BOOLEAN, dpr \in {RatInt(1), RatInt(2)} :
        /\ use => dpr = RatInt(1)
        /\ Call("stitchCapturedViewports", caps, overlap, use, NoBounds, dpr)

\* the captures of a scrolling region: tall screenshots, up to MaxCaptures
RegionCaptureSeqs ==
    SeqsOver({TallCapture(DarkPx), TallCapture(LightPx)}, MaxCaptures)

\* containerBounds: { left, top, width, height } in CSS pixels
ContainerBounds ==
    {[kind |-> "rect", left |-> l, top |-> t, width |-> 2, height |-> h] :
        l \in {0, 1}, t \in {0, 10, TallHeight},
        h \in {30, TallHeight, HugeHeight}}

\* stitchCapturedViewports(captures, overlapHeight, true, containerBounds, dpr)
CallCustomContainer ==
    /\ pc = "idle"
    /\ \E caps \in RegionCaptureSeqs, overlap \in {0, OverlapHeight},
          b \in ContainerBounds, dpr \in {RatInt(1), Rat(3, 2)} :
        Call("stitchCapturedViewports", caps, overlap, TRUE, b, dpr)

\* a capture of page-scroll element mode carries its own boundingRect
WithRect(cap, y) ==
    [cap EXCEPT !.boundingRect =
        [kind |-> "rect", x |-> 0, y |-> y, height |-> 0]]

\* a 2 x 400 capture taken with the element's top at viewport row y
ScrolledCapture(y) ==
    WithRect(Capture(Image(2, 400, <<Run(400, RowSame(2))>>)), y)

ElementCaptureSeqs ==
    RegionCaptureSeqs
    \cup {<<ScrolledCapture(0), ScrolledCapture(-120), ScrolledCapture(-240)>>,
          <<ScrolledCapture(0), ScrolledCapture(-120), ScrolledCapture(-60)>>}
    \cup {<<WithRect(TallCapture(DarkPx), 10),
            WithRect(TallCapture(LightPx), -40)>>,
          <<WithRect(TallCapture(DarkPx), 0),
            WithRect(TallCapture(LightPx), -TallHeight),
            WithRect(TallCapture(DarkPx), -TallHeight)>>}

\* elementBounds: { offsetX, offsetY, width, height, devicePixelRatio,
\* hasInternalScroll }
ElementBounds ==
    {[kind |-> "element", offsetX |-> at[1], offsetY |-> at[2], width |-> 2,
      height |-> h, devicePixelRatio |-> dpr,
      hasInternalScroll |-> Bool(internal)] :
        at \in {<<-1, -10>>, <<0, 0>>, <<0, 10>>, <<0, TallHeight>>},
        h \in {60, 3 * TallHeight, 640, 1000},
        dpr \in {RatInt(1), Rat(3, 2)},
        internal \in BOOLEAN}

\* stitchElementCaptures(captures, elementBounds, overlapHeight)
CallElement ==
    /\ pc = "idle"
    /\ \E caps \in ElementCaptureSeqs, b \in ElementBounds,
          overlap \in {0, OverlapHeight} :
        Call("stitchElementCaptures", caps, overlap, FALSE, b, RatInt(1))

\* the screenshots elementCapture collects: dataUrl, scrollY, viewportHeight,
\* viewportWidth, isLastCapture and no boundingRect
ViewportCapture == Capture(Image(2, 400, <<Run(400, RowSame(2))>>))

\* the elementBounds elementCapture builds from the element's bounding rect:
\* width, height, offsetX, offsetY, devicePixelRatio and nothing else
BackgroundElementBounds(rect, dpr) ==
    [kind |-> "element", offsetX |-> rect.x, offsetY |-> rect.y,
     width |-> rect.width, height |-> rect.height, devicePixelRatio |-> dpr,
     hasInternalScroll |-> Undefined]

\* dims.boundingRect of ELEMENT_CAPTURE_INIT
BoundingRects ==
    {[x |-> 0, y |-> y, width |-> 2, height |-> h] :
        y \in {0, 10}, h \in {200, 400}}

\* elementCapture: sendToOffscreen({ type: 'STITCH_ELEMENT_CAPTURES',
\* captures, overlapHeight: OVERLAP_HEIGHT, elementBounds })
CallElementFromCapture ==
    /\ pc = "idle"
    /\ \E caps \in Repeated(ViewportCapture, MaxCaptures),
          rect \in BoundingRects :
        Call("stitchElementCaptures", caps, OverlapHeight, FALSE,
             BackgroundElementBounds(rect, RatInt(1)), RatInt(1))

\* cropBounds: { left, top, width, height, devicePixelRatio }
CropBounds ==
    {[kind |-> "crop", left |-> 0, top |-> t, width |-> 2, height |-> h,
      devicePixelRatio |-> dpr] :
        t \in {0, 10, TallHeight}, h \in {30, TallHeight},
        dpr \in {RatInt(1), Rat(3, 2)}}
    \cup {[kind |-> "crop", left |-> 0, top |-> 0, width |-> 1,
           height |-> HugeHeight, devicePixelRatio |-> RatInt(1)]}

\* stitchJiraCenterCaptures(captures, cropBounds, overlapHeight)
CallJiraCenter ==
    /\ pc = "idle"
    /\ \E b \in CropBounds, overlap \in Overlaps :
        \E caps \in IF b.height = HugeHeight
                     THEN Repeated(HugeCapture, MaxCaptures)
                     ELSE RegionCaptureSeqs :
            Call("stitchJiraCenterCaptures", caps, overlap, FALSE, b,
                 RatInt(1))

Next ==
    \/ CallWholePage
    \/ CallCustomContainer
    \/ CallElement
    \/ CallElementFromCapture
    \/ CallJiraCenter
    \/ LoadImage
    \/ DetectHeader
    \/ AllocateOutput
    \/ DrawCapture
    \/ TrimOutput
    \/ EncodePng
    \/ RespondFulfilled
    \/ RespondRejected

Spec == Init /\ [][Next]_vars

\* ---- claims about a stitching call

WholePage == entry = "stitchCapturedViewports" /\ Mode = "whole"

\* h0 + sum over i >= 1 of (h_i - overlapHeight - stickyHeaderHeight)
HeightSum ==
    LET S[i \in 1..Len(images)] ==
            IF i = 1 THEN images[1].img.height
            ELSE S[i - 1] + (images[i].img.height - overlapHeight
                                                  - stickyHeaderHeight)
    IN  S[Len(images)]

\* C1 as stated: in whole-page mode the output height is
\* h0 + sum (h_i - overlapHeight - stickyHeaderHeight), clamped so that it is
\* never less than h0.
C1_Original ==
    (WholePage /\ pc = "done") =>
        result.height = Max(images[1].img.height, HeightSum)

\* the capture sequence is n copies of one W x H image
EqualCaptures ==
    \A i \in 1..Len(images) :
        /\ images[i].img.width = images[1].img.width
        /\ images[i].img.height = images[1].img.height

EqualHeight ==
    images[1].img.height
    + (Len(images) - 1) * (images[1].img.height - overlapHeight)

\* C2: n >= 1 captures that all decode to W x H, 0 <= overlapHeight < H, no
\* sticky header detected and H + (n-1)*(H - overlapHeight) <= 32767: the
\* whole-page output is W wide and H + (n-1)*(H - overlapHeight) high and the
\* final destination cursor equals that height; the earlier revision computes
\* the same height and cursor (three captures of 1000 x 800 with overlap 75
\* give 1000 x 2250).
C2_EqualCaptures ==
    (/\ WholePage /\ pc = "done"
     /\ EqualCaptures
     /\ overlapHeight >= 0 /\ overlapHeight < images[1].img.height
     /\ stickyHeaderHeight = 0
     /\ EqualHeight <= CanvasMax)
    => /\ result = [width |-> images[1].img.width, height |-> EqualHeight]
       /\ currentY = EqualHeight
       /\ sanitizeCanvasDimension(
              Num(EarlierTotalHeight(images, overlapHeight), 1), DefaultHeight)
          = EqualHeight
       /\ EarlierCursorAfter(images, Len(images), overlapHeight) = EqualHeight

\* three 1000 x 800 captures were stitched with overlap 75
WideTriple ==
    /\ WholePage /\ pc = "done"
    /\ captures = <<WideCapture, WideCapture, WideCapture>>
    /\ overlapHeight = OverlapHeight
    /\ stickyHeaderHeight = 0

\* C2 as stated, its example included: three captures of 1000 x 800 with
\* overlap 75 give 1000 x 2450.
C2_Original ==
    /\ C2_EqualCaptures
    /\ WideTriple => result = [width |-> 1000, height |-> 2450]

\* three 1000 x 800 captures with overlap 75 were stitched into 1000 x 2250
C2_Witness ==
    /\ WideTriple
    /\ result = [width |-> 1000, height |-> 2250]
    /\ currentY = 2250

\* C3: with exactly one capture in whole-page mode header detection is not
\* run, the single draw has source rectangle (0, 0, imageWidth, imageHeight)
\* and destination Y 0, and the output has the capture's decoded width and
\* height.
C3_SingleCapture ==
    (WholePage /\ Len(captures) = 1) =>
        LET img == captures[1].img IN
        /\ pc # "detecting"
        /\ detectOutcome = "notrun"
        /\ stickyHeaderHeight = 0
        /\ pc \in {"encoding", "done"} =>
               draws = <<[capture |-> 1, srcX |-> 0, srcY |-> 0,
                          srcWidth |-> img.width, srcHeight |-> img.height,
                          destY |-> 0]>>
        /\ pc = "done" =>
               result = [width |-> img.width, height |-> img.height]

\* a single tall capture went through with a non-zero overlap setting
C3_Witness ==
    /\ WholePage /\ pc = "done"
    /\ captures = <<TallCapture(DarkPx)>>
    /\ overlapHeight = OverlapHeight
    /\ Len(draws) = 1
    /\ result = [width |-> 2, height |-> TallHeight]

\* C4: each entry point called with zero captures fails before any work
\* begins: no image is decoded, no header detection runs, no surface is
\* allocated and nothing is encoded.
C4_EmptyInput ==
    (entry # "none" /\ Len(captures) = 0) =>
        /\ pc \in {"failed", "responded"}
        /\ failedIn = "validating"
        /\ errorMessage[Len(errorMessage)] = "No captures to stitch"
        /\ images = <<>>
        /\ detectOutcome = "notrun"
        /\ surfaces = <<>>
        /\ draws = <<>>
        /\ encodes = 0

\* the named-region entry point rejected an empty capture list
C4_Witness ==
    /\ entry = "stitchJiraCenterCaptures"
    /\ Len(captures) = 0
    /\ pc = "failed"
    /\ failedIn = "validating"

DetectionFailed == detectOutcome \in {"nocontext", "exception"}

\* C10: when cropping or pixel extraction fails inside
\* detectStickyHeaderHeight (no canvas context, or any exception) the call
\* returns 0 instead of raising: the stitch never fails in header detection,
\* it goes on to allocate and composite with stickyHeaderHeight = 0.
C10_DetectFailureIsZero ==
    /\ failedIn # "detecting"
    /\ DetectionFailed =>
           /\ stickyHeaderHeight = 0
           /\ pc \in {"allocating", "compositing", "trimming", "encoding",
                      "done", "failed", "responded"}
           /\ failedIn \in {"none", "allocating", "trimming", "encoding"}

\* a stitch whose header detection failed produced its output all the same
C10_Witness ==
    /\ DetectionFailed
    /\ pc = "done"
    /\ Len(draws) = Len(captures)
    /\ result.height > 0

\* ---- claims about the drawing loop

Drawn == 1..Len(draws)

\* C11 as stated: in every mode a capture whose resolved source width or
\* height is <= 0 is skipped: no drawImage call with a negative side is
\* made, and the destination cursor is the sum of the heights drawn.
C11_Original ==
    /\ \A k \in Drawn : draws[k].srcWidth >= 0 /\ draws[k].srcHeight >= 0
    /\ \A k \in Drawn :
           (k < Len(draws) => draws[k + 1].destY
                                 = draws[k].destY + Max(draws[k].srcHeight, 0))
    /\ draws # <<>> =>
           currentY = draws[Len(draws)].destY
                      + Max(draws[Len(draws)].srcHeight, 0)

\* C12 as stated: in every mode the destination Y is non-decreasing across
\* the capture sequence.
C12_Original ==
    /\ \A k \in Drawn :
           k < Len(draws) => draws[k + 1].destY >= draws[k].destY
    /\ draws # <<>> => currentY >= draws[Len(draws)].destY
    /\ currentY >= 0

\* C13 as stated: for every capture drawn, in every mode, the source
\* rectangle lies within the decoded image.
C13_Original ==
    \A k \in Drawn :
        LET d == draws[k]
            img == images[d.capture].img
        IN  /\ d.srcX >= 0 /\ d.srcY >= 0
            /\ d.srcWidth >= 0 /\ d.srcHeight >= 0
            /\ d.srcX + d.srcWidth <= img.width
            /\ d.srcY + d.srcHeight <= img.height

\* C14 as stated: in every mode, when the final cursor is below the
\* allocated height the output is re-allocated to exactly the cursor height,
\* so a returned output is never higher than the rows drawn.
C14_Original ==
    /\ (pc \in {"encoding", "done"} /\ currentY < surfaces[1].height) =>
           /\ Len(surfaces) = 2
           /\ surfaces[2].height = currentY
    /\ pc = "done" => result.height <= currentY

\* ---- claims about page-scroll element mode

PageScroll == entry = "stitchElementCaptures" /\ Mode = "page"

\* height x devicePixelRatio of the element bounds
DeclaredHeight == Scaled(bounds.height, bounds.devicePixelRatio)

\* the captures the drawing loop has gone through
Processed ==
    IF pc = "compositing" THEN 1..(drawIndex - 1)
    ELSE IF pc \in {"trimming", "encoding", "done"} THEN 1..Len(images)
         ELSE {}

\* C15 as stated: in page-scroll element mode the final stitched height
\* equals the element's declared total height, for every declared height.
C15_Original ==
    (PageScroll /\ pc = "done") => result.height = DeclaredHeight

\* C15 (amended): in page-scroll element mode the row watermark is
\* non-decreasing (it is the largest row end among the captures processed)
\* and the final stitched height is the element's declared total height
\* (height x devicePixelRatio, at most 32767) when the rows drawn reach it,
\* and the number of rows drawn when the captures cover less; it is never
\* the sum of the raw capture heights unless that is what was drawn.
C15_DeclaredOrDrawn ==
    (PageScroll /\ DeclaredHeight >= 1) =>
        /\ \A k \in Processed :
               elementRowDrawnUpTo >= ElementRowEnd(images[k], DeclaredHeight)
        /\ elementRowDrawnUpTo >= 0
        /\ elementRowDrawnUpTo <= Max(DeclaredHeight, 0)
        /\ pc = "done" =>
               result.height = Min(Min(DeclaredHeight, CanvasMax), currentY)

\* captures at offsetY 0, -120, -240 of height 400 each were stitched into an
\* element declared 1000 rows high: 640 rows were drawn and returned
C15_Witness ==
    /\ PageScroll /\ pc = "done"
    /\ captures = <<ScrolledCapture(0), ScrolledCapture(-120),
                    ScrolledCapture(-240)>>
    /\ DeclaredHeight = 1000
    /\ elementRowDrawnUpTo = 640
    /\ currentY = 640
    /\ result.height = 640

\* ---- claims about device pixels

\* C16 as stated, for whole-page mode: stitchCapturedViewports called with
\* devicePixelRatio d removes overlapHeight x d rows (and the detected
\* header) from every capture after the first.
C16_Original ==
    WholePage =>
        \A k \in Drawn :
            LET d == draws[k]
                removed == Scaled(overlapHeight, devicePixelRatio)
                           + stickyHeaderHeight
            IN  d.capture > 1 =>
                    /\ d.srcY = removed
                    /\ d.srcHeight = images[d.capture].img.height - removed

\* ---- claims about failures and the listener's answer

\* the messages the underlying cause of a failure in a phase can carry
CauseMessages(phase) ==
    IF phase = "validating" THEN {"No captures to stitch"}
    ELSE IF phase = "loading" THEN {"Failed to load image"}
    ELSE IF phase = "allocating"
         THEN {"Failed to get canvas context", "canvas allocation failed"}
    ELSE IF phase = "trimming" THEN {"canvas allocation failed"}
    ELSE IF phase = "encoding" THEN {"PNG encoding failed"}
    ELSE {"detection failed"}

InnerPhases == {"detecting", "allocating", "trimming", "encoding"}

\* C17: a call that failed (empty input, a capture that does not decode, no
\* canvas context, PNG encoding that fails) rejects, and the message of its
\* Error is the entry point's own text followed by the message of the cause;
\* a failure inside stitchCustomContainerCaptures has the texts of both catch
\* blocks before the cause.
C17_CauseInMessage ==
    failedIn # "none" =>
        /\ pc \in {"failed", "responded"}
        /\ result = NoResult
        /\ Len(errorMessage) >= 2
        /\ errorMessage[1] = OuterMessage(entry)
        /\ errorMessage[Len(errorMessage)] \in CauseMessages(failedIn)
        /\ IF Mode = "custom" /\ failedIn \in InnerPhases
           THEN /\ Len(errorMessage) = 3
                /\ errorMessage[2] =
                       "Failed to stitch custom container captures"
           ELSE Len(errorMessage) = 2

C17_Witness ==
    /\ pc = "failed"
    /\ Mode = "custom"
    /\ failedIn = "encoding"
    /\ errorMessage = <<"Failed to stitch captures",
                        "Failed to stitch custom container captures",
                        "PNG encoding failed">>

IsSuccessResponse(r) ==
    r.success /\ r.pngBlobUrl # "none" /\ r.error = <<>>

IsErrorResponse(r) ==
    ~r.success /\ r.pngBlobUrl = "none" /\ r.error # <<>>

\* C18: a stitch message is answered exactly once (never twice, and a call
\* that has settled without an answer can always send it); the answer is either
\* {success: true, pngBlobUrl} or {error} and never both; a call that failed
\* in any phase produces no PNG URL and its answer is the error.
C18_OneResponse ==
    /\ Len(responses) <= 1
    /\ (pc = "responded") = (Len(responses) = 1)
    /\ pc \in {"done", "failed"} => ENABLED (RespondFulfilled \/ RespondRejected)
    /\ \A k \in 1..Len(responses) :
          /\ IsSuccessResponse(responses[k]) # IsErrorResponse(responses[k])
          /\ IsSuccessResponse(responses[k]) =>
                /\ failedIn = "none"
                /\ encodes = 1
                /\ blobUrls = 1
                /\ result # NoResult
    /\ blobUrls <= 1
    /\ failedIn # "none" =>
          /\ blobUrls = 0
          /\ result = NoResult
          /\ pc = "responded" =>
                /\ IsErrorResponse(responses[1])
                /\ responses[1].error = errorMessage

C18_Witness ==
    /\ pc = "responded"
    /\ failedIn = "encoding"
    /\ Len(draws) >= 2
    /\ Len(responses) = 1
    /\ IsErrorResponse(responses[1])
    /\ blobUrls = 0

\* ---- claims about the source rectangles of each mode

\* the sum of the heights of the first n drawImage calls
HeightDrawn(n) ==
    LET S[k \in 0..Len(draws)] ==
            IF k = 0 THEN 0 ELSE S[k - 1] + draws[k].srcHeight
    IN  S[n]

\* C21: in whole-page mode the captures are drawn in sequence order, none
\* left out; the first from source Y 0 with its full height, every later one
\* from source Y overlapHeight + stickyHeaderHeight with height
\* imageHeight - overlapHeight - stickyHeaderHeight; each at the destination
\* Y that is the sum of the heights drawn before it.
C21_WholePageDraws ==
    WholePage =>
        /\ Len(draws) = Max(drawIndex - 1, 0)
        /\ pc \in {"encoding", "done"} => Len(draws) = Len(captures)
        /\ \A k \in Drawn :
              LET d == draws[k]
                  h == images[k].img.height
              IN  /\ d.capture = k
                  /\ d.srcX = 0
                  /\ d.srcWidth = images[1].img.width
                  /\ d.srcY = IF k = 1 THEN 0
                              ELSE overlapHeight + stickyHeaderHeight
                  /\ d.srcHeight =
                         IF k = 1 THEN h
                         ELSE h - overlapHeight - stickyHeaderHeight
                  /\ d.destY = HeightDrawn(k - 1)
        /\ currentY = HeightDrawn(Len(draws))

C21_Witness ==
    /\ WholePage
    /\ pc = "done"
    /\ overlapHeight = 2
    /\ stickyHeaderHeight = HeaderRows
    /\ Len(draws) = 3
    /\ draws[3].srcY = 2 + HeaderRows
    /\ draws[3].srcHeight = TallHeight - 2 - HeaderRows
    /\ draws[3].destY = TallHeight + (TallHeight - 2 - HeaderRows)

\* the source Y of capture i when no header is skipped
SourceYWithoutHeader(i) ==
    LET later == IF i = 1 THEN 0 ELSE Scaled(overlapHeight, ModeDpr)
    IN  IF Mode = "whole" THEN (IF i = 1 THEN 0 ELSE overlapHeight)
        ELSE IF Mode = "custom"
             THEN ScaledBounds(bounds, devicePixelRatio).top + later
             ELSE images[i].offsetY + later

\* C22 as stated: in every mode that runs header detection (whole-page,
\* custom-container, element), a detected height s > 0 is skipped from the
\* top of the source rectangle of every capture after the first and never
\* from the first.
C22_Original ==
    (Mode \in {"whole", "custom", "internal"} /\ stickyHeaderHeight > 0) =>
        \A k \in Drawn :
            draws[k].srcY =
                SourceYWithoutHeader(draws[k].capture)
                + (IF draws[k].capture = 1 THEN 0 ELSE stickyHeaderHeight)

\* the rows of the element a capture shows, as the claim gives them
RowStartOf(i) == Max(0, -images[i].offsetY)
RowEndOf(i) ==
    Min(RowStartOf(i) + (images[i].img.height - Max(0, images[i].offsetY)),
        DeclaredHeight)

\* the watermark after the first n captures were processed
Watermark(n) ==
    LET W[k \in 0..Len(images)] ==
            IF k = 0 THEN 0 ELSE Max(W[k - 1], RowEndOf(k))
    IN  W[n]

\* the captures the drawing loop has gone through
LoopDone == Max(drawIndex - 1, 0)

\* C23: in page-scroll element mode, with captures processed in order, the
\* watermark after n captures is the largest elementRowEnd of the first n
\* (elementRowStart = max(0, -offsetY), elementRowEnd = min(elementRowStart
\* + imageHeight - max(0, offsetY), total height)); a capture drawn starts
\* max(0, watermark - elementRowStart) rows below the top of its visible
\* element content; the watermark never decreases and never exceeds the
\* total element height.
C23_Watermark ==
    (PageScroll /\ DeclaredHeight >= 0) =>
        /\ elementRowDrawnUpTo = Watermark(LoopDone)
        /\ \A n \in 1..LoopDone : Watermark(n) >= Watermark(n - 1)
        /\ elementRowDrawnUpTo <= DeclaredHeight
        /\ \A k \in Drawn :
              LET i == draws[k].capture
                  overlapRows == Max(0, Watermark(i - 1) - RowStartOf(i))
              IN  /\ i <= LoopDone
                  /\ k > 1 => draws[k - 1].capture < i
                  /\ draws[k].srcY = Max(0, images[i].offsetY) + overlapRows

C23_Witness ==
    /\ PageScroll
    /\ pc = "done"
    /\ DeclaredHeight = 1000
    /\ Len(draws) = 3
    /\ draws[2].srcY = 280
    /\ draws[3].srcY = 280
    /\ Watermark(1) = 400
    /\ Watermark(2) = 520
    /\ elementRowDrawnUpTo = 640

\* the element rows the k-th drawImage call copies: RowFrom(k) .. RowTo(k)-1
RowFrom(k) ==
    LET i == draws[k].capture
    IN  RowStartOf(i) + (draws[k].srcY - Max(0, images[i].offsetY))
RowTo(k) == RowFrom(k) + draws[k].srcHeight

\* every capture after the first, up to n, starts at or before the watermark
NoGapUpTo(n) == \A i \in 2..n : RowStartOf(i) <= Watermark(i - 1)

CustomContainer == entry = "stitchCapturedViewports" /\ Mode = "custom"

\* the comparison of the container crop of captures 0 and 1: the region that
\* starts at (left x dpr, top x dpr), width x dpr wide
CropDiffCount(row) ==
    LET sb == ScaledBounds(bounds, devicePixelRatio)
    IN  IF row >= Floor(DetectMaxHeight) THEN 0
        ELSE Cardinality({x \in 0..(sb.width - 1) :
                PixelDiff(PixelAt(images[1].img, sb.left + x, sb.top + row),
                          PixelAt(images[2].img, sb.left + x, sb.top + row))
                > PixelDiffThreshold})

CropBreakingRows ==
    {row \in LoopRows(DetectMaxHeight) :
        CropDiffCount(row) * 100
        > ScaledBounds(bounds, devicePixelRatio).width * RowDiffPercent}

CropStickyHeight ==
    LET run == IF CropBreakingRows = {}
               THEN Cardinality(LoopRows(DetectMaxHeight))
               ELSE CHOOSE row \in CropBreakingRows :
                        \A other \in CropBreakingRows : row <= other
    IN  IF /\ run >= StickyMinHeight
           /\ RatLess(RatInt(run + StickyMinHeight), DetectMaxHeight)
        THEN run ELSE 0

\* C25 as stated: in custom-container mode the header height is the result
\* of comparing the container crop of captures 0 and 1 (from x = left x dpr,
\* y = top x dpr, width x dpr wide, min(200 x dpr, height x dpr / 2) rows),
\* not the top rows of the raw captures.
C25_Original ==
    (CustomContainer /\ detectOutcome = "ok") =>
        stickyHeaderHeight = CropStickyHeight

\* rows a capture after the first starts lower and is shorter by
ContainerRemoved(i) ==
    IF i = 1 THEN 0
    ELSE Scaled(overlapHeight, devicePixelRatio) + stickyHeaderHeight

\* the source rectangle of capture i before and after the clamp to the image
ContainerRead(i) ==
    LET left == Scaled(bounds.left, devicePixelRatio)
        top == Scaled(bounds.top, devicePixelRatio) + ContainerRemoved(i)
        high == Scaled(bounds.height, devicePixelRatio) - ContainerRemoved(i)
    IN  [srcX |-> left, srcY |-> top, unclamped |-> high,
         srcWidth |-> Min(Scaled(bounds.width, devicePixelRatio),
                          images[i].img.width - left),
         srcHeight |-> Min(high, images[i].img.height - top)]

\* the sum of the unclamped heights of all captures
ContainerUnclampedSum ==
    LET S[i \in 0..Len(images)] ==
            IF i = 0 THEN 0 ELSE S[i - 1] + ContainerRead(i).unclamped
    IN  S[Len(images)]

\* the drawImage calls of custom-container mode are those the claim gives
ContainerDraws ==
    /\ \A k \in Drawn :
          LET i == draws[k].capture
              read == ContainerRead(i)
          IN  /\ i <= LoopDone
              /\ k > 1 => draws[k - 1].capture < i
              /\ draws[k].srcX = read.srcX
              /\ draws[k].srcY = read.srcY
              /\ draws[k].srcWidth = read.srcWidth
              /\ draws[k].srcHeight = read.srcHeight
    /\ \A i \in 1..LoopDone :
          (ContainerRead(i).srcWidth > 0 /\ ContainerRead(i).srcHeight > 0)
              = (\E k \in Drawn : draws[k].capture = i)

\* C26 as stated: the source rectangles of custom-container mode, and the
\* allocated height is the sum of the unclamped heights.
C26_Original ==
    CustomContainer =>
        /\ ContainerDraws
        /\ surfaces # <<>> => surfaces[1].height = ContainerUnclampedSum

\* C26 (amended): in custom-container mode every capture is read from
\* x = round(left x dpr) with width round(width x dpr); the first reads
\* round(height x dpr) rows from round(top x dpr), each later one starts
\* round(overlapHeight x dpr) + stickyHeaderHeight rows lower and is that
\* many rows shorter; width and height are clamped to the image and a capture
\* left with no width or height is not drawn; the allocated height is the sum
\* of the unclamped heights when that is within 1..32767, 600 when it is
\* below 1 and 32767 when it is above.
C26_ContainerRectangles ==
    CustomContainer =>
        /\ ContainerDraws
        /\ surfaces # <<>> =>
              surfaces[1].height =
                  IF ContainerUnclampedSum < 1 THEN DefaultHeight
                  ELSE Min(ContainerUnclampedSum, CanvasMax)

C26_Witness ==
    /\ CustomContainer
    /\ pc = "done"
    /\ devicePixelRatio = Rat(3, 2)
    /\ stickyHeaderHeight = HeaderRows
    /\ bounds.top = 10
    /\ Len(draws) = 3
    /\ draws[1].srcY = 15 /\ draws[1].srcHeight = 85
    /\ draws[3].srcY = 15 + HeaderRows
    /\ draws[3].srcHeight = TallHeight - 15 - HeaderRows
    /\ ContainerRead(3).unclamped = 150 - HeaderRows
    /\ surfaces[1].height = 150 + 2 * (150 - HeaderRows)

\* ---- claims about element internal-scroll mode

InternalScroll == entry = "stitchElementCaptures" /\ Mode = "internal"

\* the offsets and the capture height of capture i: those of its own
\* boundingRect when it has one (a height of 0 falls back), else the bounds'
OffsetXOf(i) ==
    IF captures[i].boundingRect # NoBounds THEN captures[i].boundingRect.x
    ELSE bounds.offsetX
OffsetYOf(i) ==
    IF captures[i].boundingRect # NoBounds THEN captures[i].boundingRect.y
    ELSE bounds.offsetY
CaptureHeightOf(i) ==
    IF captures[i].boundingRect # NoBounds
       /\ captures[i].boundingRect.height # 0
    THEN captures[i].boundingRect.height
    ELSE bounds.height

\* the source rectangle the claim gives for capture i
InternalRead(i) ==
    LET dpr == bounds.devicePixelRatio
        lower == IF i = 1 THEN 0 ELSE Scaled(overlapHeight, dpr)
        srcY == Scaled(OffsetYOf(i), dpr) + lower
    IN  [srcX |-> Max(0, Scaled(OffsetXOf(i), dpr)),
         srcY |-> srcY,
         srcHeight |-> Min(Scaled(CaptureHeightOf(i), dpr) - lower,
                           images[i].img.height - srcY)]

\* C27: in element internal-scroll mode a capture drawn is read from
\* source X max(0, offsetX x dpr) and source Y offsetY x dpr (the first) or
\* offsetY x dpr + overlapHeight x dpr (the later ones), with the height
\* captureHeight x dpr (the first) or that minus overlapHeight x dpr (the
\* later ones), clamped to the image bottom.
C27_InternalRectangles ==
    InternalScroll =>
        \A k \in Drawn :
            LET i == draws[k].capture
            IN  /\ i <= LoopDone
                /\ k > 1 => draws[k - 1].capture < i
                /\ draws[k].srcX = InternalRead(i).srcX
                /\ draws[k].srcY = InternalRead(i).srcY
                /\ draws[k].srcHeight = InternalRead(i).srcHeight

C27_Witness ==
    /\ InternalScroll
    /\ pc = "done"
    /\ bounds.devicePixelRatio = RatInt(1)
    /\ overlapHeight = OverlapHeight
    /\ bounds.offsetX = -1
    /\ bounds.offsetY = -10
    /\ bounds.height = 3 * TallHeight
    /\ Len(draws) = 2
    /\ draws[1].srcX = 0
    /\ draws[1].srcY = -10 /\ draws[1].srcHeight = TallHeight + 10
    /\ draws[2].srcY = OverlapHeight - 10
    /\ draws[2].srcHeight = TallHeight + 10 - OverlapHeight

\* ---- claims about named-region mode

NamedRegion == entry = "stitchJiraCenterCaptures"

\* the source rectangle of capture i before and after the clamp to the image
RegionRead(i) ==
    LET dpr == bounds.devicePixelRatio
        lower == IF i = 1 THEN 0 ELSE Scaled(overlapHeight, dpr)
        left == Scaled(bounds.left, dpr)
        top == Scaled(bounds.top, dpr) + lower
        high == Scaled(bounds.height, dpr) - lower
    IN  [srcX |-> left, srcY |-> top,
         fullWidth |-> Scaled(bounds.width, dpr), fullHeight |-> high,
         srcWidth |-> Min(Scaled(bounds.width, dpr),
                          images[i].img.width - left),
         srcHeight |-> Min(high, images[i].img.height - top)]

\* no capture is clamped or skipped
RegionUnclamped ==
    \A i \in 1..Len(images) :
        /\ RegionRead(i).srcWidth = RegionRead(i).fullWidth
        /\ RegionRead(i).srcHeight = RegionRead(i).fullHeight
        /\ RegionRead(i).srcWidth > 0
        /\ RegionRead(i).srcHeight > 0

\* h + (n - 1) * (h - o)
RegionSum ==
    LET h == Scaled(bounds.height, bounds.devicePixelRatio)
        o == Scaled(overlapHeight, bounds.devicePixelRatio)
    IN  h + (Len(images) - 1) * (h - o)

\* no header detection, and the source rectangles the claim gives
RegionDraws ==
    /\ detectOutcome = "notrun"
    /\ stickyHeaderHeight = 0
    /\ \A k \in Drawn :
          LET i == draws[k].capture
          IN  /\ i <= LoopDone
              /\ k > 1 => draws[k - 1].capture < i
              /\ draws[k].srcX = RegionRead(i).srcX
              /\ draws[k].srcY = RegionRead(i).srcY
              /\ draws[k].srcWidth = RegionRead(i).srcWidth
              /\ draws[k].srcHeight = RegionRead(i).srcHeight

\* C28 as stated: named-region mode runs no header detection, reads the crop
\* rectangle x dpr (later captures overlapHeight x dpr lower and shorter), and
\* for n captures none of which is clamped or skipped the output height is
\* h + (n-1)*(h - o).
C28_Original ==
    NamedRegion =>
        /\ RegionDraws
        /\ (pc = "done" /\ RegionUnclamped) => result.height = RegionSum

\* C28 (amended): as stated, with the output height h + (n-1)*(h - o) when
\* that is at most 32767 and 32767 when it is larger.
C28_NamedRegion ==
    NamedRegion =>
        /\ RegionDraws
        /\ (pc = "done" /\ RegionUnclamped) =>
              result.height = Min(RegionSum, CanvasMax)

C28_Witness ==
    /\ NamedRegion
    /\ pc = "done"
    /\ RegionUnclamped
    /\ bounds.devicePixelRatio = RatInt(1)
    /\ bounds.top = 10
    /\ overlapHeight = 2
    /\ Len(draws) = 3
    /\ draws[1].srcY = 10 /\ draws[1].srcHeight = 30
    /\ draws[3].srcY = 12 /\ draws[3].srcHeight = 28
    /\ result.height = 86

\* ---- claims about the order of the phases

\* the phase changes the claim allows
PhaseSteps ==
    {<<"idle", "loading">>, <<"idle", "failed">>,
     <<"loading", "loading">>, <<"loading", "detecting">>,
     <<"loading", "allocating">>, <<"loading", "failed">>,
     <<"detecting", "allocating">>, <<"detecting", "failed">>,
     <<"allocating", "compositing">>, <<"allocating", "failed">>,
     <<"compositing", "compositing">>, <<"compositing", "trimming">>,
     <<"compositing", "encoding">>, <<"compositing", "failed">>,
     <<"trimming", "encoding">>, <<"trimming", "failed">>,
     <<"encoding", "done">>, <<"encoding", "failed">>,
     <<"done", "responded">>, <<"failed", "responded">>}

\* a step of the decoding loop decodes the next capture of the sequence and
\* leaves the ones decoded before as they are
DecodesNext ==
    /\ Len(images') = Len(images) + 1
    /\ images'[Len(images')].img = captures[Len(images')].img
    /\ \A i \in 1..Len(images) : images'[i] = images[i]

\* what is left of a call that failed while decoding
StoppedAtDecoding ==
    /\ pc \in {"failed", "responded"}
    /\ Len(images) < Len(captures)
    /\ detectOutcome = "notrun"
    /\ stickyHeaderHeight = 0
    /\ surfaces = <<>>
    /\ draws = <<>>
    /\ encodes = 0
    /\ result = NoResult

\* C29: the phases of a call follow one another in the order decode all
\* captures, header detection (where the mode has it), allocate, draw the
\* captures in sequence order, optional trim, encode, done; the captures are
\* decoded one by one in sequence order; after a capture failed to decode no
\* further capture is decoded, no detection runs, no surface is allocated,
\* nothing is drawn or encoded and the call is failed.
C29_PhaseOrder ==
    [][/\ <<pc, pc'>> \in PhaseSteps
       /\ (pc = "loading" /\ pc' # "failed") => DecodesNext
       /\ pc # "loading" => images' = images
       /\ pc' \in {"detecting", "allocating"} =>
             Len(images') = Len(captures')
       /\ pc' = "detecting" =>
             (Len(captures') >= 2 /\ Mode' \in {"whole", "custom", "internal"})
       /\ (pc = "compositing") =>
             /\ drawIndex' = drawIndex + 1
             /\ Len(draws') \in {Len(draws), Len(draws) + 1}
             /\ Len(draws') = Len(draws) + 1 =>
                    draws'[Len(draws')].capture = drawIndex
             /\ pc' # "compositing" => drawIndex = Len(images)
       /\ failedIn' = "loading" => StoppedAtDecoding'
      ]_vars

C29_Witness ==
    /\ pc = "failed"
    /\ failedIn = "loading"
    /\ Len(captures) = 3
    /\ Len(images) = 1
    /\ images[1].img = captures[1].img
    /\ StoppedAtDecoding

\* ---- claims about the surfaces allocated

\* C30 as stated: every output surface a call allocates, the trimmed one
\* included, has a width and a height within 1..32767.
C30_Original ==
    \A k \in 1..Len(surfaces) :
        /\ surfaces[k].width \in 1..CanvasMax
        /\ surfaces[k].height \in 1..CanvasMax

\* ---- claims about elementCapture

\* a stitch call made by elementCapture, which scrolls inside the element
FromElementCapture ==
    /\ entry = "stitchElementCaptures"
    /\ bounds \in {BackgroundElementBounds(rect, RatInt(1)) :
                      rect \in BoundingRects}

\* C20 as stated: a stitch call made by elementCapture runs in internal-scroll
\* mode (elementBounds.hasInternalScroll is true) and every capture after the
\* first is drawn with its capture height minus the scaled overlap.
C20_Original ==
    FromElementCapture =>
        /\ bounds.hasInternalScroll = Bool(TRUE)
        /\ Mode = "internal"
        /\ \A i \in Processed :
              i > 1 =>
                \E k \in Drawn :
                    /\ draws[k].capture = i
                    /\ draws[k].srcHeight =
                           images[i].captureHeight
                           - Scaled(overlapHeight, bounds.devicePixelRatio)

\* the rows of the element a capture has in view
VisibleHeight(i) == images[i].img.height - Max(0, images[i].offsetY)

\* every capture resolves to the same rectangle, its own or elementBounds,
\* and has the same visible element height
SameRectangle ==
    \A i \in 1..Len(images) :
        /\ images[i].offsetX = images[1].offsetX
        /\ images[i].offsetY = images[1].offsetY
        /\ images[i].captureHeight = images[1].captureHeight
        /\ VisibleHeight(i) = VisibleHeight(1)

\* the source height capture i resolves to in page-scroll element mode
PageSrcHeight(i) ==
    images[i].img.height
    - (Max(0, images[i].offsetY)
       + Max(0, Watermark(i - 1) - RowStartOf(i)))

\* C39: in page-scroll element mode, when every capture resolves to the same
\* bounding rectangle and the declared total height is at least
\* elementRowStart plus the visible element height, every capture after the
\* first resolves to a source height <= 0 and is skipped: only rows of the
\* first capture are drawn
C39_OnlyFirstDrawn ==
    (/\ PageScroll
     /\ Len(images) = Len(captures)
     /\ Len(images) >= 1
     /\ SameRectangle
     /\ DeclaredHeight >= RowStartOf(1) + VisibleHeight(1))
    => /\ \A i \in 2..Len(images) : PageSrcHeight(i) <= 0
       /\ \A k \in Drawn : draws[k].capture = 1
       /\ Len(draws) <= 1
       /\ currentY <= Max(VisibleHeight(1), 0)

\* three screenshots as elementCapture sends them, without rectangles of
\* their own: one draw, the 390 rows the first screenshot shows
C39_Witness ==
    /\ PageScroll
    /\ FromElementCapture
    /\ pc = "done"
    /\ Len(captures) = 3
    /\ bounds.offsetY = 10
    /\ DeclaredHeight = 400
    /\ Len(draws) = 1
    /\ draws[1].capture = 1
    /\ draws[1].srcHeight = 390

\* C40: in page-scroll element mode a capture skipped because its source
\* height is <= 0 leaves the destination cursor and the rows-drawn
\* watermark as they were
C40_SkipKeepsAccumulators ==
    [][(/\ pc = "compositing"
        /\ PageScroll
        /\ drawIndex' = drawIndex + 1
        /\ DrawInstruction(drawIndex).srcHeight <= 0)
       => (/\ currentY' = currentY
           /\ elementRowDrawnUpTo' = elementRowDrawnUpTo
           /\ draws' = draws)]_vars

\* the third capture drifted back: its rows 60..459 lie below the watermark
\* 520 and it was skipped
C40_Witness ==
    /\ PageScroll
    /\ pc = "done"
    /\ Len(captures) = 3
    /\ RowEndOf(3) = 460
    /\ PageSrcHeight(3) = -60
    /\ Len(draws) = 2
    /\ elementRowDrawnUpTo = 520
    /\ currentY = 520

----------------------------------------------------------------------------
(* Specification SpecRepeat: the listener handles up to MaxCalls stitch    *)
(* messages one after another; the variables of a call keep what the call  *)
(* left in them until the next call starts                                 *)

MaxCalls == 3

\* the messages the listener is sent, one of every mode
RepeatMessages ==
    {[entry |-> "stitchCapturedViewports", captures |-> caps,
      overlapHeight |-> 2, useCustomContainer |-> FALSE, bounds |-> NoBounds,
      devicePixelRatio |-> RatInt(1)] :
        caps \in {<<TallCapture(DarkPx), TallCapture(LightPx)>>}}
    \cup
    {[entry |-> "stitchCapturedViewports",
      captures |-> <<TallCapture(DarkPx), TallCapture(LightPx)>>,
      overlapHeight |-> 0, useCustomContainer |-> TRUE,
      bounds |-> [kind |-> "rect", left |-> 0, top |-> 10, width |-> 2,
                  height |-> 30],
      devicePixelRatio |-> RatInt(1)]}
    \cup
    {[entry |-> "stitchElementCaptures", captures |-> caps,
      overlapHeight |-> 0, useCustomContainer |-> FALSE,
      bounds |-> [kind |-> "element", offsetX |-> 0, offsetY |-> 0,
                  width |-> 2, height |-> shape[1],
                  devicePixelRatio |-> RatInt(1),
                  hasInternalScroll |-> Bool(shape[2])],
      devicePixelRatio |-> RatInt(1)] :
        caps \in {<<ScrolledCapture(0), ScrolledCapture(-120),
                    ScrolledCapture(-240)>>},
        shape \in {<<60, FALSE>>, <<1000, FALSE>>, <<1000, TRUE>>}}
    \cup
    {[entry |-> "stitchJiraCenterCaptures",
      captures |-> <<TallCapture(DarkPx), TallCapture(LightPx)>>,
      overlapHeight |-> 0, useCustomContainer |-> FALSE,
      bounds |-> [kind |-> "crop", left |-> 0, top |-> 10, width |-> 2,
                  height |-> 30, devicePixelRatio |-> RatInt(1)],
      devicePixelRatio |-> RatInt(1)]}

\* the listener dispatches a message to its entry point
ReceiveMessage ==
    /\ pc = "idle"
    /\ \E m \in RepeatMessages :
        Call(m.entry, m.captures, m.overlapHeight, m.useCustomContainer,
             m.bounds, m.devicePixelRatio)

\* what a call that produced its PNG was given and what it computed
Outcome ==
    [args |-> argVars, detectOutcome |-> detectOutcome,
     stickyHeaderHeight |-> stickyHeaderHeight, draws |-> draws,
     surfaces |-> surfaces, result |-> result]

\* the listener returns to wait for the next message; nothing of the call
\* that ended is cleared
NextMessage ==
    /\ pc = "responded"
    /\ callCount + 1 < MaxCalls
    /\ pc' = "idle"
    /\ callCount' = callCount + 1
    /\ earlier' = IF failedIn = "none" THEN Append(earlier, Outcome)
                  ELSE earlier
    /\ responses' = <<>>
    /\ blobUrls' = 0
    /\ UNCHANGED <<argVars, images, stickyHeaderHeight, detectOutcome,
                   surfaces, drawIndex, currentY, elementRowDrawnUpTo, draws,
                   encodes, result, failedIn, errorMessage, sanVars, detVars,
                   workerVars>>

NextRepeat ==
    \/ ReceiveMessage
    \/ LoadImage
    \/ DetectHeader
    \/ AllocateOutput
    \/ DrawCapture
    \/ TrimOutput
    \/ EncodePng
    \/ RespondFulfilled
    \/ RespondRejected
    \/ NextMessage

SpecRepeat == Init /\ [][NextRepeat]_vars

Produced == pc \in {"done", "responded"} /\ failedIn = "none"

SameAs(k) ==
    /\ earlier[k].args = argVars
    /\ earlier[k].detectOutcome = detectOutcome

\* C19: a stitch call that produced its PNG computed the same sticky-header
\* height, the same draw instructions and the same output surfaces as every
\* earlier call with the same captures, bounds and overlapHeight (the canvas
\* behaving the same towards header detection), whatever calls ran before or
\* between the two.
C19_SameInputsSameOutput ==
    Produced =>
        \A k \in 1..Len(earlier) :
            SameAs(k) =>
                /\ earlier[k].stickyHeaderHeight = stickyHeaderHeight
                /\ earlier[k].draws = draws
                /\ earlier[k].surfaces = surfaces
                /\ earlier[k].result = result

C19_Witness ==
    /\ Produced
    /\ PageScroll
    /\ Len(earlier) = 2
    /\ SameAs(1)
    /\ earlier[2].args # argVars
    /\ earlier[2].args[1] = "stitchElementCaptures"
    /\ ~ToBoolean(earlier[2].args[5].hasInternalScroll)
    /\ DeclaredHeight = 1000
    /\ Len(draws) = 3
    /\ earlier[1].draws = draws

----------------------------------------------------------------------------
(* Specification SpecSanitize: one call of sanitizeCanvasDimension on an   *)
(* input drawn from SanValues x SanDefaults                                *)

SanNums ==
    {Num(n, d) : n \in -SanSpan..SanSpan, d \in {1, 2}}
    \cup {Num(17, 10), Num(50000, 1)}
    \cup {Num(2 * CanvasMax + k, 2) : k \in -SanSpan..SanSpan}
SanValues ==
    {Undefined, Null, NaN, PosInfinity, NegInfinity, Text} \cup SanNums
SanDefaults == {DefaultWidth, DefaultHeight, 1, CanvasMax, 0, -1, 50000}

InitSanitize ==
    /\ sanPc = "ready"
    /\ sanValue \in SanValues
    /\ sanDefault \in SanDefaults
    /\ sanResult = 0
    /\ DetIdle
    /\ StitchIdle
    /\ WorkerIdle

SanitizeCall ==
    /\ sanPc = "ready"
    /\ sanResult' = sanitizeCanvasDimension(sanValue, sanDefault)
    /\ sanPc' = "returned"
    /\ UNCHANGED <<sanValue, sanDefault, detVars, workerVars, stitchVars,
                   listenerVars>>

NextSanitize == SanitizeCall

SpecSanitize == InitSanitize /\ [][NextSanitize]_vars

SanIsNum == sanValue.kind = "num"
SanNotANumber ==
    sanValue.kind \in {"undefined", "null", "nan", "inf", "neginf", "text"}
SanBelow(i) == SanIsNum /\ sanValue.n < i * sanValue.d
SanFractional == SanIsNum /\ sanValue.n % sanValue.d # 0

\* C5 as stated, for a default within [1, 32767]: the default for a value that
\* is missing, NaN, non-finite or <= 0; floor(value) for a positive
\* fractional value; 32767 above 32767.
C5_Original ==
    (sanPc = "returned" /\ sanDefault \in 1..CanvasMax) =>
        /\ SanNotANumber => sanResult = sanDefault
        /\ SanBelow(0) \/ (SanIsNum /\ sanValue.n = 0) => sanResult = sanDefault
        /\ (SanFractional /\ ~SanBelow(0) /\ SanBelow(CanvasMax + 1))
               => sanResult = Floor(sanValue)
        /\ (SanIsNum /\ ~SanBelow(CanvasMax + 1)) => sanResult = CanvasMax

\* C5 (amended): sanitizeCanvasDimension returns the default when the value is
\* missing, NaN or non-finite; the default capped at 32767 when the value is
\* below 1 (fractional values in (0,1) included); floor(value) when
\* 1 <= value < 32768; 32767 when value >= 32768.  With default 800 the inputs
\* undefined, null, NaN, -5, 0, 1.7, 50000 give 800, 800, 800, 800, 800, 1,
\* 32767.
C5_SanitizePolicy ==
    sanPc = "returned" =>
        /\ SanNotANumber => sanResult = sanDefault
        /\ SanBelow(1) => sanResult = Min(sanDefault, CanvasMax)
        /\ (SanIsNum /\ ~SanBelow(1) /\ SanBelow(CanvasMax + 1))
               => sanResult = Floor(sanValue)
        /\ (SanIsNum /\ ~SanBelow(CanvasMax + 1)) => sanResult = CanvasMax
        /\ sanDefault = 800 =>
               /\ sanValue \in {Undefined, Null, NaN, Num(-5, 1), Num(0, 1)}
                      => sanResult = 800
               /\ sanValue = Num(17, 10) => sanResult = 1
               /\ sanValue = Num(50000, 1) => sanResult = 32767

\* a value in (0,1) has been sanitized to the default
C5_Witness ==
    /\ sanPc = "returned"
    /\ sanValue = Num(1, 2)
    /\ sanDefault = 800
    /\ sanResult = 800

\* C6 as stated: for every value and every default the result is an integer
\* in [1, 32767].
C6_Original ==
    sanPc = "returned" => sanResult \in 1..CanvasMax

\* C6 (amended): for every value, and every default that is itself an integer
\* in [1, 32767], sanitizeCanvasDimension returns an integer in [1, 32767].
C6_SanitizeRange ==
    (sanPc = "returned" /\ sanDefault \in 1..CanvasMax)
        => sanResult \in 1..CanvasMax

\* a value above the ceiling has been clamped to it
C6_Witness ==
    /\ sanPc = "returned"
    /\ sanValue = Num(50000, 1)
    /\ sanDefault \in 1..CanvasMax
    /\ sanResult = CanvasMax

----------------------------------------------------------------------------
(* Specification SpecDetect: one call of detectStickyHeaderHeight on two   *)
(* images that agree on a leading run of rows                              *)

DetWidths == {1, 20}
DetOffsets == {0, 1}
DetWindows == {RatInt(40), Rat(81, 2), RatInt(100)}
DetRunLengths == {0, 19, 20, 25, 79, 80, 85, DetImageHeight - 1}

\* images are two pixels wider than the compared region
DetRowsB(w) == {RowSame(w), RowNoise(w), RowOver(w), RowFew(w, 1), RowFew(w, 2)}
DetRowsC(w) == {RowSame(w), RowOver(w)}

DetFirst(w) == Image(w, DetImageHeight, <<Run(DetImageHeight, RowSame(w))>>)
DetSecond(w) ==
    {DetFirst(w)} \cup
    {Image(w, DetImageHeight,
           <<Run(r, RowSame(w)), Run(1, rowB),
             Run(DetImageHeight - r - 1, rowC)>>) :
        r \in DetRunLengths, rowB \in DetRowsB(w), rowC \in DetRowsC(w)}

InitDetect ==
    /\ detPc = "ready"
    /\ detWidth \in DetWidths
    /\ detOffsetX \in DetOffsets
    /\ detImg1 = DetFirst(detWidth + 2)
    /\ detImg2 \in DetSecond(detWidth + 2)
    /\ detMaxHeight \in DetWindows
    /\ detEnv \in CanvasEnvs
    /\ detResult = 0
    /\ SanIdle
    /\ StitchIdle
    /\ WorkerIdle

DetectCall ==
    /\ detPc = "ready"
    /\ detResult' = detectStickyHeaderHeight(detImg1, detImg2, detOffsetX,
                        detMaxHeight, detWidth, detEnv).value
    /\ detPc' = "returned"
    /\ UNCHANGED <<detImg1, detImg2, detOffsetX, detMaxHeight, detWidth,
                   detEnv, sanVars, workerVars, stitchVars, listenerVars>>

NextDetect == DetectCall

SpecDetect == InitDetect /\ [][NextDetect]_vars

\* rows of pixel data the two canvases hold, and rows the loop visits (one
\* more when maxHeight is fractional; that row has no data and matches)
DetCanvasRows == Floor(detMaxHeight)
DetScannedRows == -((-detMaxHeight.n) \div detMaxHeight.d)
DetPixel1(x, row) == PixelAt(detImg1, detOffsetX + x, row)
DetPixel2(x, row) == PixelAt(detImg2, detOffsetX + x, row)

\* the number of pixels of a row whose R, G and B differences sum to more
\* than 30
DetDiffering(row) ==
    IF row >= DetCanvasRows THEN 0
    ELSE Cardinality({x \in 0..(detWidth - 1) :
        LET p == DetPixel1(x, row)
            q == DetPixel2(x, row)
        IN  Abs(p[1] - q[1]) + Abs(p[2] - q[2]) + Abs(p[3] - q[3]) > 30})

\* the length of the leading run of rows that satisfy Matches: the index of
\* the first row that does not
LeadingRun(Matches(_)) ==
    LET broken == {row \in 0..(DetScannedRows - 1) : ~Matches(row)}
    IN  IF broken = {} THEN DetScannedRows
        ELSE CHOOSE row \in broken : \A other \in broken : row <= other

\* a row matches when at most 5% of its pixels differ
DetMatchesAtMost(row) == DetDiffering(row) * 100 <= detWidth * 5
\* a row matches when strictly fewer than 5% of its pixels differ
DetMatchesFewer(row) == DetDiffering(row) * 100 < detWidth * 5

DetRan == detPc = "returned" /\ detEnv = "ok"

\* C7 as stated: the leading run r of matching rows is returned exactly when
\* r >= 20 and r is strictly less than the compared height, 0 otherwise.
C7_Original ==
    DetRan =>
        LET r == LeadingRun(DetMatchesAtMost)
        IN  detResult =
                IF r >= 20 /\ RatLess(RatInt(r), detMaxHeight) THEN r ELSE 0

DetIdentical ==
    \A row \in 0..(DetCanvasRows - 1), x \in 0..(detWidth - 1) :
        DetPixel1(x, row) = DetPixel2(x, row)

\* C8: when the two compared regions are identical in every row,
\* detectStickyHeaderHeight returns 0, whatever the window height.
C8_IdenticalGivesZero ==
    (detPc = "returned" /\ DetIdentical) => detResult = 0

\* two identical regions have been compared in a 40-row window
C8_Witness ==
    /\ DetRan
    /\ detMaxHeight = RatInt(40)
    /\ detImg2 = detImg1
    /\ detResult = 0

\* C9 as stated: a pixel differs when |dR|+|dG|+|dB| > 30, a row matches
\* exactly when strictly fewer than 5% of its pixels differ, and the result
\* is decided by the leading run of matching rows.
C9_Original ==
    DetRan =>
        detResult = AcceptStickyHeight(LeadingRun(DetMatchesFewer),
                                       detMaxHeight)

\* C9 (amended): a pixel differs exactly when |dR|+|dG|+|dB| > 30 (alpha
\* never contributes); a row matches exactly when at most 5% of its pixels
\* differ (it breaks the run only when more than 5% differ); the scan stops
\* at the first non-matching row, so the result is decided by the leading run
\* alone.
C9_LeadingRun ==
    DetRan =>
        detResult = AcceptStickyHeight(LeadingRun(DetMatchesAtMost),
                                       detMaxHeight)

\* a row in which exactly 5% of the pixels differ has extended the run
C9_Witness ==
    /\ DetRan
    /\ detWidth = 20
    /\ DetDiffering(25) = 1
    /\ detResult = 26

----------------------------------------------------------------------------
(* Specification SpecCapture: the viewport-capture loop of the background  *)
(* worker (src/unnamed/part_000), from the dimensions the content script   *)
(* reports to the call of the stitcher or the error thrown                 *)

\* the tallest page or element the content script reports
MaxPageHeight == 1200

notCaptureVars == <<sanVars, detVars, stitchVars, listenerVars, sessionVars>>

MAX_CAPTURES == 100
ScreenshotRetries == 3

\* dims.scrollHeight and dims.viewportHeight (clientHeight for an element):
\* integers of the DOM
ScrollHeights == {0, 60, 76, 100, 150, 500, 925, 1000, MaxPageHeight}
ViewportHeights == {0, 50, 75, 76, 100, 500}

\* viewportHeight - OVERLAP_HEIGHT
ScrollStep(vh) == vh - OverlapHeight

\* Math.ceil(a / b) for integers a > 0 and b # 0
CeilDiv(a, b) == IF b > 0 THEN (a + b - 1) \div b ELSE -(a \div (-b))

\* a count that is not limited to MAX_CAPTURES
Unlimited(n) == n

\* Math.min(numCaptures, MAX_CAPTURES)
EnforceLimit(n) == Min(n, MAX_CAPTURES)

\* the number of captures planned; a step of 0 divides to Infinity, which
\* the limit turns into MAX_CAPTURES
NumCaptures(sh, vh) ==
    IF sh > vh
    THEN IF ScrollStep(vh) = 0
         THEN MAX_CAPTURES
         ELSE EnforceLimit(CeilDiv(sh - vh, ScrollStep(vh)) + 1)
    ELSE EnforceLimit(1)

\* const scrollY = i * (viewportHeight - OVERLAP_HEIGHT), i from 0
ScrollYOf(i, vh) == i * ScrollStep(vh)

\* the loop's own stop: scrollY > scrollHeight - viewportHeight
PastBottom(y, sh, vh) == y > sh - vh

\* a retry loop that goes on after every quota failure
RetryAlways(kind, left) == kind = "quota"

\* captureError.message.includes('quota') && retries > 0
RetryAllowed(kind, left) == kind = "quota" /\ left > 0

\* captures.length === 0
NothingCollected(caps) == Len(caps) = 0

CaptureOf(y, sh, vh) ==
    [scrollY |-> y, viewportHeight |-> vh, isLastCapture |-> y + vh >= sh]

\* the dimensions arrive and the number of captures is planned
ReadDimensions ==
    /\ capPc = "idle"
    /\ \E fn \in {"scrollAndStitchCapture", "elementCapture"} : capFn' = fn
    /\ \E sh \in ScrollHeights, vh \in ViewportHeights :
           /\ scrollHeight' = sh
           /\ viewportHeight' = vh
           /\ numCaptures' = NumCaptures(sh, vh)
    /\ capIndex' = 0
    /\ collected' = <<>>
    /\ capPc' = "loop"
    /\ UNCHANGED <<retries, attempts, dataUrl, lastFailure, capError,
                   stitcherCalls, notCaptureVars>>

\* if (!dims.success) throw
DimensionsFail ==
    /\ capPc = "idle"
    /\ \E fn \in {"scrollAndStitchCapture", "elementCapture"} : capFn' = fn
    /\ capPc' = "failed"
    /\ capError' = "dimensions"
    /\ UNCHANGED <<scrollHeight, viewportHeight, numCaptures, capIndex,
                   retries, attempts, dataUrl, lastFailure, collected,
                   stitcherCalls, notCaptureVars>>

\* the loop goes on: i < numCaptures and scrollY is not past the bottom
LoopGoesOn ==
    /\ capIndex < numCaptures
    /\ ~PastBottom(ScrollYOf(capIndex, viewportHeight), scrollHeight,
                   viewportHeight)

\* the head of the for loop, up to the scroll request
EnterIteration ==
    /\ capPc = "loop"
    /\ LoopGoesOn
    /\ capPc' = "scrolling"
    /\ UNCHANGED <<capFn, scrollHeight, viewportHeight, numCaptures, capIndex,
                   retries, attempts, dataUrl, lastFailure, collected,
                   capError, stitcherCalls, notCaptureVars>>

\* the scroll request is answered; let dataUrl; let retries = 3
Scroll ==
    /\ capPc = "scrolling"
    /\ \E success \in BOOLEAN :
           IF success
           THEN /\ capPc' = "shooting"
                /\ retries' = ScreenshotRetries
                /\ attempts' = 0
                /\ dataUrl' = "undefined"
                /\ lastFailure' = "none"
                /\ UNCHANGED capError
           ELSE /\ capPc' = "failed"
                /\ capError' = "scroll"
                /\ UNCHANGED <<retries, attempts, dataUrl, lastFailure>>
    /\ UNCHANGED <<capFn, scrollHeight, viewportHeight, numCaptures, capIndex,
                   collected, stitcherCalls, notCaptureVars>>

\* one turn of while (retries > 0): captureVisibleTab resolves, or rejects
\* with a quota message or with another message
Shoot ==
    /\ capPc = "shooting"
    /\ IF retries > 0
       THEN \E outcome \in {"ok", "quota", "other"} :
                /\ attempts' = attempts + 1
                /\ IF outcome = "ok"
                   THEN /\ dataUrl' = "url"
                        /\ capPc' = "storing"
                        /\ UNCHANGED <<retries, lastFailure, capError>>
                   ELSE /\ retries' = retries - 1
                        /\ lastFailure' = outcome
                        /\ dataUrl' = dataUrl
                        /\ IF RetryAllowed(outcome, retries - 1)
                           THEN /\ capPc' = "shooting"
                                /\ UNCHANGED capError
                           ELSE /\ capPc' = "failed"
                                /\ capError' = outcome
       ELSE /\ capPc' = "storing"
            /\ UNCHANGED <<retries, attempts, dataUrl, lastFailure, capError>>
    /\ UNCHANGED <<capFn, scrollHeight, viewportHeight, numCaptures, capIndex,
                   collected, stitcherCalls, notCaptureVars>>

\* fetch(dataUrl), response.blob(), captures.push({...})
Store ==
    /\ capPc = "storing"
    /\ IF dataUrl = "url"
       THEN /\ collected' =
                   Append(collected,
                          CaptureOf(ScrollYOf(capIndex, viewportHeight),
                                    scrollHeight, viewportHeight))
            /\ capIndex' = capIndex + 1
            /\ capPc' = "loop"
            /\ UNCHANGED capError
       ELSE /\ capPc' = "failed"
            /\ capError' = "fetch"
            /\ UNCHANGED <<collected, capIndex>>
    /\ UNCHANGED <<capFn, scrollHeight, viewportHeight, numCaptures, retries,
                   attempts, dataUrl, lastFailure, stitcherCalls,
                   notCaptureVars>>

\* the loop is over: nothing collected is an error, anything else goes to
\* the stitcher
LeaveLoop ==
    /\ capPc = "loop"
    /\ ~LoopGoesOn
    /\ IF NothingCollected(collected)
       THEN /\ capPc' = "failed"
            /\ capError' = "No captures were collected"
            /\ UNCHANGED stitcherCalls
       ELSE /\ capPc' = "collected"
            /\ stitcherCalls' = stitcherCalls + 1
            /\ UNCHANGED capError
    /\ UNCHANGED <<capFn, scrollHeight, viewportHeight, numCaptures, capIndex,
                   retries, attempts, dataUrl, lastFailure, collected,
                   notCaptureVars>>

NextCapture ==
    \/ ReadDimensions
    \/ DimensionsFail
    \/ EnterIteration
    \/ Scroll
    \/ Shoot
    \/ Store
    \/ LeaveLoop

\* every request the loop awaits is answered by the browser
SpecCapture == Init /\ [][NextCapture]_vars /\ WF_vars(NextCapture)

\* ---- claims about the viewport-capture loop

CaptureDone == capPc = "collected"
LastCollected == collected[Len(collected)]

\* C31: whenever scrollAndStitchCapture hands captures of a page with
\* scrollHeight > viewportHeight > 75 to the stitcher, the last capture
\* reaches the bottom of the page and carries isLastCapture = true
C31_Original ==
    (/\ CaptureDone
     /\ capFn = "scrollAndStitchCapture"
     /\ scrollHeight > viewportHeight
     /\ viewportHeight > OverlapHeight)
    => /\ LastCollected.scrollY + viewportHeight >= scrollHeight
       /\ LastCollected.isLastCapture

\* C32: the captures handed to the stitcher are in strictly increasing
\* scroll order, capture i at i x (viewportHeight - 75), neighbours 75 px
\* apart from a full viewport, none past scrollHeight - viewportHeight
C32_Original ==
    CaptureDone =>
        /\ \A k \in 1..Len(collected) :
               /\ collected[k].scrollY =
                      (k - 1) * (viewportHeight - OverlapHeight)
               /\ collected[k].scrollY <= scrollHeight - viewportHeight
        /\ \A k \in 1..(Len(collected) - 1) :
               /\ collected[k].scrollY < collected[k + 1].scrollY
               /\ collected[k].scrollY + viewportHeight
                      - collected[k + 1].scrollY = OverlapHeight

CaptureEnded == capPc \in {"collected", "failed"}

\* C33: for any dimensions reported, also viewportHeight <= 75 and
\* scrollHeight <= viewportHeight, the capture loop terminates with at most
\* 100 captures; with zero captures the capture fails with an error and the
\* stitcher is not invoked
C33_LoopTerminates ==
    /\ [](Len(collected) <= MAX_CAPTURES)
    /\ [](stitcherCalls > 0 => Len(collected) > 0)
    /\ []((CaptureEnded /\ Len(collected) = 0) =>
              (capPc = "failed" /\ capError # "none" /\ stitcherCalls = 0))
    /\ <>CaptureEnded

\* a viewport lower than the overlap: the step is negative, the planned
\* number of captures is below 1 and the empty result is rejected
C33_Witness ==
    /\ capPc = "failed"
    /\ capError = "No captures were collected"
    /\ viewportHeight < OverlapHeight
    /\ scrollHeight > viewportHeight
    /\ numCaptures < 1
    /\ stitcherCalls = 0

\* C34: per viewport captureVisibleTab is attempted at most 3 times; a retry
\* follows only a quota failure while attempts remain; another failure or a
\* third quota failure aborts the capture with that error; a capture is
\* stored only after a successful screenshot
C34_BoundedRetries ==
    /\ attempts <= ScreenshotRetries
    /\ capPc = "shooting" => attempts = ScreenshotRetries - retries
    /\ capPc = "storing" => attempts = ScreenshotRetries - retries + 1
    /\ (capPc = "shooting" /\ attempts > 0) =>
           (lastFailure = "quota" /\ attempts < ScreenshotRetries)
    /\ lastFailure = "other" => (capPc = "failed" /\ capError = "other")
    /\ (lastFailure = "quota" /\ attempts = ScreenshotRetries
            /\ dataUrl = "undefined") =>
           (capPc = "failed" /\ capError = "quota")
    /\ capError \in {"quota", "other"} => lastFailure = capError
    /\ capError # "fetch"
    /\ capPc = "storing" => dataUrl = "url"
    /\ (capPc \in {"loop", "collected"} /\ Len(collected) > 0) =>
           dataUrl = "url"

\* the third attempt succeeds after two quota failures
C34_Witness ==
    /\ capPc = "storing"
    /\ attempts = ScreenshotRetries
    /\ lastFailure = "quota"
    /\ dataUrl = "url"

----------------------------------------------------------------------------
(* Specification SpecSession: the capture sessions of the background       *)
(* worker: the capture-page hotkey, the START_CAPTURE and ELEMENT_SELECTED *)
(* messages, the sessions they start and the delayed clear of the state    *)

\* sessions started in one run
MaxSessions == 2

notSessionVars == <<sanVars, detVars, stitchVars, listenerVars, captureVars>>

SessionIds == 1..Len(sessions)
Terminal == {"completed", "error"}

\* a session from its first statement to the end of its finally block
Live(s) == sessions[s].pc # "ended"

\* the hotkey's test: a state is there and is neither completed nor error
InProgress(state) == state # NoState /\ state.status \notin Terminal

\* a delayed clear that does not look whose state it clears
ClearAlways(state, sessionId) == state # NoState

\* currentCaptureState && currentCaptureState.sessionId === sessionId
ClearGuard(state, sessionId) ==
    state # NoState /\ state.sessionId = sessionId

\* a catch block that throws the error on to the caller
StartCaptureRethrows(failure) ==
    IF failure = "none" THEN "resolved" ELSE "rejected"

\* startCapture's promise: the catch block publishes the error and does not
\* rethrow, and `return sessionId` follows the finally block
StartCaptureSettles(failure) == "resolved"

\* what the listener answers: ELEMENT_SELECTED at once with success, a
\* START_CAPTURE in the then or the catch handler of startCapture's
\* promise, which run as soon as the promise is settled
Answer(origin, settled) ==
    IF origin = "selected" THEN "success"
    ELSE IF origin = "message" /\ settled = "resolved" THEN "success"
    ELSE IF origin = "message" /\ settled = "rejected" THEN "failure"
    ELSE "none"

\* a session at its start; its id, Math.random().toString(36).substring(7),
\* is its place in sessions: taken to differ from every id drawn before
NewSession(origin) ==
    [origin |-> origin, pc |-> "tab", published |-> <<>>,
     overlapped |-> \E s \in SessionIds : Live(s),
     failure |-> "none", stitched |-> FALSE, downloaded |-> FALSE,
     settled |-> "pending", answer |-> Answer(origin, "pending")]

\* ELEMENT_SELECTED starts an element capture, the others a page capture
KindOf(s) == IF sessions[s].origin = "selected" THEN "element" ELSE "page"

MayStart == Len(sessions) + pendingHotkeys < MaxSessions

\* updateCaptureState(sessionId, status, ...) called for each status in turn
Published(s, statuses) ==
    [sessions EXCEPT ![s].published = @ \o statuses]
StateAfter(s, statuses) ==
    IF statuses = <<>> THEN currentCaptureState
    ELSE [sessionId |-> s, status |-> statuses[Len(statuses)]]

\* the statuses a session publishes when a step succeeds, up to its next
\* await, and the phase it then waits in (config.preCapture is false)
StepOf(kind, phase) ==
    IF phase = "tab"
    THEN IF kind = "element"
         THEN [next |-> "capturing", statuses |-> <<"started", "capturing">>]
         ELSE [next |-> "preparing", statuses |-> <<"started", "preparing">>]
    ELSE IF phase = "preparing"
    THEN [next |-> "capturing", statuses |-> <<"capturing">>]
    ELSE IF phase = "capturing"
    THEN [next |-> "stitching", statuses |-> <<"stitching">>]
    ELSE IF phase = "stitching"
    THEN [next |-> "downloading", statuses |-> <<"downloading">>]
    ELSE [next |-> "ended", statuses |-> <<"completed">>]

\* the commands.onCommand listener for 'capture-page': ignored while a
\* capture is in progress, else the configuration is requested
HotkeyCapturePage ==
    /\ MayStart
    /\ IF InProgress(currentCaptureState)
       THEN UNCHANGED pendingHotkeys
       ELSE pendingHotkeys' = pendingHotkeys + 1
    /\ UNCHANGED <<currentCaptureState, activeSessions, sessions, timers,
                   staleFires, notSessionVars>>

\* chrome.storage.sync.get calls back: startCapture(config) runs up to
\* await getCurrentTab()
StorageCallback ==
    /\ pendingHotkeys > 0
    /\ pendingHotkeys' = pendingHotkeys - 1
    /\ sessions' = Append(sessions, NewSession("hotkey"))
    /\ UNCHANGED <<currentCaptureState, activeSessions, timers, staleFires,
                   notSessionVars>>

\* a START_CAPTURE message: startCapture(...) runs up to its first await
StartCaptureMessage ==
    /\ MayStart
    /\ sessions' = Append(sessions, NewSession("message"))
    /\ UNCHANGED <<currentCaptureState, activeSessions, timers,
                   pendingHotkeys, staleFires, notSessionVars>>

\* an ELEMENT_SELECTED message: the async block runs up to its first await
\* and the message is answered at once
ElementSelected ==
    /\ MayStart
    /\ sessions' = Append(sessions, NewSession("selected"))
    /\ UNCHANGED <<currentCaptureState, activeSessions, timers,
                   pendingHotkeys, staleFires, notSessionVars>>

\* the catch block and the finally block of a session
Caught(s, failure, before) ==
    /\ sessions' =
           [Published(s, before \o <<"error">>) EXCEPT
               ![s].pc = "ended",
               ![s].failure = failure,
               ![s].settled = StartCaptureSettles(failure),
               ![s].answer = Answer(sessions[s].origin,
                                    StartCaptureSettles(failure))]
    /\ currentCaptureState' = [sessionId |-> s, status |-> "error"]
    /\ activeSessions' = activeSessions \ {s}
    /\ UNCHANGED timers

\* getCurrentTab() settles: no tab, a tab that may not be captured (page
\* capture only), or a tab to capture
TabResolved ==
    \E s \in SessionIds :
        /\ sessions[s].pc = "tab"
        /\ \E tab \in {"none", "restricted", "capturable"} :
               IF tab = "none"
               THEN Caught(s, "No active tab found", <<>>)
               ELSE IF tab = "restricted" /\ KindOf(s) = "page"
               THEN Caught(s, "URL not capturable", <<"error">>)
               ELSE LET step == StepOf(KindOf(s), "tab")
                    IN  /\ activeSessions' = activeSessions \cup {s}
                        /\ sessions' =
                               [Published(s, step.statuses) EXCEPT
                                   ![s].pc = step.next]
                        /\ currentCaptureState' =
                               StateAfter(s, step.statuses)
                        /\ UNCHANGED timers
        /\ UNCHANGED <<pendingHotkeys, staleFires, notSessionVars>>

\* an awaited request of the capture rejects, or answers without success
StepFails ==
    \E s \in SessionIds :
        /\ sessions[s].pc \in {"preparing", "capturing", "stitching",
                               "downloading"}
        /\ Caught(s, sessions[s].pc, <<>>)
        /\ UNCHANGED <<pendingHotkeys, staleFires, notSessionVars>>

\* an awaited request of the capture succeeds and the session runs on to
\* its next await
StepSucceeds ==
    \E s \in SessionIds :
        /\ sessions[s].pc \in {"preparing", "capturing", "stitching"}
        /\ LET step == StepOf(KindOf(s), sessions[s].pc)
           IN  /\ sessions' =
                      [Published(s, step.statuses) EXCEPT
                          ![s].pc = step.next,
                          ![s].stitched = @ \/ sessions[s].pc = "stitching"]
               /\ currentCaptureState' = StateAfter(s, step.statuses)
        /\ UNCHANGED <<activeSessions, timers, pendingHotkeys, staleFires,
                       notSessionVars>>

\* chrome.downloads.download resolves: 'completed' is published, the
\* delayed clear is scheduled, the finally block runs
Downloaded ==
    \E s \in SessionIds :
        /\ sessions[s].pc = "downloading"
        /\ sessions' =
               [Published(s, <<"completed">>) EXCEPT
                   ![s].pc = "ended",
                   ![s].downloaded = TRUE,
                   ![s].settled = "resolved",
                   ![s].answer = Answer(sessions[s].origin, "resolved")]
        /\ currentCaptureState' = [sessionId |-> s, status |-> "completed"]
        /\ timers' = timers \cup {s}
        /\ activeSessions' = activeSessions \ {s}
        /\ UNCHANGED <<pendingHotkeys, staleFires, notSessionVars>>

\* the delayed clear of a completed session runs, 5 s after it was set
TimerFires ==
    \E s \in timers :
        /\ timers' = timers \ {s}
        /\ IF ClearGuard(currentCaptureState, s)
           THEN /\ currentCaptureState' = NoState
                /\ UNCHANGED staleFires
           ELSE /\ UNCHANGED currentCaptureState
                /\ staleFires' =
                       IF currentCaptureState # NoState THEN 1
                       ELSE staleFires
        /\ UNCHANGED <<activeSessions, sessions, pendingHotkeys,
                       notSessionVars>>

NextSession ==
    \/ HotkeyCapturePage
    \/ StorageCallback
    \/ StartCaptureMessage
    \/ ElementSelected
    \/ TabResolved
    \/ StepFails
    \/ StepSucceeds
    \/ Downloaded
    \/ TimerFires

\* every request a session awaits settles, and every timer set runs
SpecSession == Init /\ [][NextSession]_vars /\ WF_vars(NextSession)

\* ---- claims about the capture sessions

TerminalCount(s) ==
    Cardinality({k \in 1..Len(sessions[s].published) :
                     sessions[s].published[k] \in Terminal})
LastPublished(s) == sessions[s].published[Len(sessions[s].published)]

\* C35: at most one capture session is in progress at a time: a session
\* started by the capture-page hotkey never starts while another session is
\* in progress, also when the presses or messages arrive before the first
\* session has published a state
C35_Original ==
    \A s \in SessionIds :
        sessions[s].origin = "hotkey" => ~sessions[s].overlapped

\* C36: every session publishes exactly one terminal status, completed or
\* error, and nothing after it; completed only after the stitching succeeded
\* and the download was issued; an ended session is not in activeSessions
C36_Original ==
    \A s \in SessionIds :
        /\ TerminalCount(s) <= 1
        /\ TerminalCount(s) = 1 => LastPublished(s) \in Terminal
        /\ ~Live(s) => (TerminalCount(s) = 1 /\ s \notin activeSessions)
        /\ (\E k \in 1..Len(sessions[s].published) :
                sessions[s].published[k] = "completed") =>
               (sessions[s].stitched /\ sessions[s].downloaded)

\* C37: the delayed clear of a session sets currentCaptureState to null only
\* if the state still belongs to that session: a timer left over from an
\* earlier session never erases the state of a later one
C37_ClearOnlyOwnState ==
    [][(currentCaptureState # NoState /\ currentCaptureState' = NoState) =>
           (/\ currentCaptureState.sessionId \in timers
            /\ currentCaptureState.sessionId \notin timers'
            /\ currentCaptureState.status = "completed")]_vars

\* the timer of an earlier session ran while the state was a later
\* session's, and the state is still there
C37_Witness ==
    /\ staleFires = 1
    /\ currentCaptureState # NoState
    /\ currentCaptureState.sessionId = 2
    /\ sessions[1].downloaded
    /\ 1 \notin timers

\* every START_CAPTURE message received so far is answered with success
AllAnswered ==
    \A s \in SessionIds :
        sessions[s].origin = "message" => sessions[s].answer = "success"

\* C38: startCapture never rejects; whatever fails inside it, it resolves
\* with the session id, a START_CAPTURE message is always answered with
\* {success: true, sessionId}, and the failure shows only as the error state
C38_NeverRejects ==
    /\ [](\A s \in SessionIds :
              /\ sessions[s].settled # "rejected"
              /\ sessions[s].answer # "failure"
              /\ sessions[s].failure # "none" =>
                     (/\ sessions[s].settled = "resolved"
                      /\ LastPublished(s) = "error"))
    /\ (~AllAnswered) ~> AllAnswered

\* a START_CAPTURE whose capture failed at the download is answered with
\* success
C38_Witness ==
    \E s \in SessionIds :
        /\ sessions[s].origin = "message"
        /\ sessions[s].failure = "downloading"
        /\ sessions[s].answer = "success"
        /\ LastPublished(s) = "error"

====
